---- MODULE Spec2Model ----
(***************************************************************************)
(* The streaming stats importer (src/importer_streaming.py) and the lock   *)
(* discipline it shares with the name resolver (src/resolve_names.py).     *)
(*                                                                         *)
(* The persistent store is a record of tables, each a set of rows.  The    *)
(* importer's connection runs with autocommit off: a statement changes the *)
(* connection's uncommitted view (txn) and conn.commit() publishes it (db).*)
(* A database call that raises is modelled by running only a prefix of the *)
(* handler's statement list.                                               *)
(***************************************************************************)
EXTENDS Integers, Sequences, FiniteSets, TLC

\* Number of player identities (16-byte uuids, ordered as BINARY(16)).
NPlayers == 2
Players == 1..NPlayers

\* The names of the files of the stats directory: a player's id, or 0 for a
\* name that is not a uuid (notes.json).
FileNames == 0..NPlayers

\* How many database calls may raise / processes may be killed in one behaviour.
MaxFaults == 1

(***************************************************************************)
(* JSON values as json.loads returns them.  A dict keeps insertion order:  *)
(* kv is the sequence of <<key, value>> pairs.  A float is kept as twice   *)
(* its value (n = 5 is 2.5), a numeric string by the integer it spells.    *)
(***************************************************************************)
JInt(n) == [t |-> "int", n |-> n, kv |-> <<>>]
JFloat(twice) == [t |-> "float", n |-> twice, kv |-> <<>>]
JNumStr(n) == [t |-> "numstr", n |-> n, kv |-> <<>>]
JBool(b) == [t |-> "bool", n |-> IF b THEN 1 ELSE 0, kv |-> <<>>]
JText == [t |-> "text", n |-> 0, kv |-> <<>>]
JNull == [t |-> "null", n |-> 0, kv |-> <<>>]
JList == [t |-> "list", n |-> 0, kv |-> <<>>]
JDict(kv) == [t |-> "dict", n |-> 0, kv |-> kv]

IsDict(j) == j.t = "dict"

HasKey(d, k) == \E i \in 1..Len(d.kv) : d.kv[i][1] = k

\* dict.get(k, default)
DictGet(d, k, default) ==
  IF HasKey(d, k)
  THEN d.kv[CHOOSE i \in 1..Len(d.kv) : d.kv[i][1] = k][2]
  ELSE default

\* An int() that accepts whole numbers only.
PyIntOnly(v) ==
  IF v.t = "int" THEN [ok |-> TRUE, n |-> v.n] ELSE [ok |-> FALSE, n |-> 0]

\* Python's int(v): truncation toward zero for a float, parsing for a string
\* of digits; ok = FALSE stands for the ValueError / TypeError it raises.
PyInt(v) ==
  CASE v.t = "int" -> [ok |-> TRUE, n |-> v.n]
    [] v.t = "float" ->
         [ok |-> TRUE, n |-> IF v.n >= 0 THEN v.n \div 2 ELSE -((-v.n) \div 2)]
    [] v.t = "numstr" -> [ok |-> TRUE, n |-> v.n]
    [] v.t = "bool" -> [ok |-> TRUE, n |-> v.n]
    [] OTHER -> [ok |-> FALSE, n |-> 0]

\* Every key that occurs in a modelled document, in Python's string order
\* (the order json.dumps(sort_keys=True) emits them in).
KeyOrder ==
  << "minecraft:custom", "minecraft:deaths", "minecraft:dirt", "minecraft:jump",
     "minecraft:mined", "minecraft:play_time", "minecraft:red_wall_banner",
     "minecraft:stone", "stats" >>

KeyRank(k) == CHOOSE i \in 1..Len(KeyOrder) : KeyOrder[i] = k

\* k.endswith("_wall_banner"), over the keys of KeyOrder
EndsWithWallBanner(k) == k \in {"minecraft:red_wall_banner"}

RECURSIVE DropBannerKeys(_)
DropBannerKeys(kv) ==
  IF kv = <<>> THEN <<>>
  ELSE IF EndsWithWallBanner(Head(kv)[1]) THEN DropBannerKeys(Tail(kv))
  ELSE <<Head(kv)>> \o DropBannerKeys(Tail(kv))

\* A strip that removes nothing.
KeepBanners(stats) == stats

\* strip_wall_banners: every dict-valued section loses its banner keys.
strip_wall_banners(stats) ==
  JDict([i \in 1..Len(stats.kv) |->
           LET sec == stats.kv[i][1]
               val == stats.kv[i][2]
           IN IF IsDict(val) THEN <<sec, JDict(DropBannerKeys(val.kv))>>
              ELSE <<sec, val>>])

\* A dump that keeps the keys in the order of the input.
KeepOrder(kv) == kv

\* Insert one pair into a key-sorted sequence of pairs.
RECURSIVE InsertByKey(_, _)
InsertByKey(pair, sorted) ==
  IF sorted = <<>> THEN <<pair>>
  ELSE IF KeyRank(pair[1]) < KeyRank(Head(sorted)[1]) THEN <<pair>> \o sorted
  ELSE <<Head(sorted)>> \o InsertByKey(pair, Tail(sorted))

RECURSIVE SortKeys(_)
SortKeys(kv) ==
  IF kv = <<>> THEN <<>> ELSE InsertByKey(Head(kv), SortKeys(Tail(kv)))

\* json.dumps(stats, sort_keys=True, separators=(",", ":")): the document with
\* the keys of every dict, at every depth, in sorted order.
RECURSIVE json_bytes(_)
json_bytes(j) ==
  IF IsDict(j)
  THEN JDict(SortKeys([i \in 1..Len(j.kv) |-> <<j.kv[i][1], json_bytes(j.kv[i][2])>>]))
  ELSE j

\* hashlib.sha1(...).digest(): collision-free on the modelled documents.
sha1(bytes) == [sha1 |-> bytes]

\* What reading a file of the stats directory gives: no such file, text that
\* json.loads rejects, or a parsed document.
NoFile == [kind |-> "absent", json |-> JNull]
BadFile == [kind |-> "unparsable", json |-> JNull]
JsonFile(j) == [kind |-> "json", json |-> j]

\* lines 598-601: the stats tree of a parsed document
StatsOf(raw) ==
  LET inner == IF IsDict(raw) THEN DictGet(raw, "stats", JNull) ELSE JNull
      stats == IF IsDict(inner) THEN inner
               ELSE IF IsDict(raw) THEN raw ELSE JDict(<<>>)
  IN strip_wall_banners(stats)

\* lines 603-607: int(stats.get("minecraft:custom", {}).get("minecraft:play_time", 0)),
\* 0 when any part of it raises
PlayTime(stats) ==
  LET custom == DictGet(stats, "minecraft:custom", JDict(<<>>))
  IN IF ~IsDict(custom) THEN 0
     ELSE LET r == PyInt(DictGet(custom, "minecraft:play_time", JInt(0)))
          IN IF r.ok THEN r.n ELSE 0

\* --min-play-ticks default
MinPlayTicks == 72000

(***************************************************************************)
(* Metric definitions and the metric computation of main (lines 669-683).  *)
(***************************************************************************)
MetricSource(metric_id, section, mc_key, weight) ==
  [metric_id |-> metric_id, section |-> section, mc_key |-> mc_key, weight |-> weight]

\* One row of metric_source joined with metric_def.enabled, in the order of
\* the query of load_metric_sources.
SourceRow(metric_id, section, mc_key, weight, enabled) ==
  [metric_id |-> metric_id, section |-> section, mc_key |-> mc_key,
   weight |-> weight, enabled |-> enabled]

\* out.setdefault(metric_id, []).append(src) on a dict kept as a sequence of
\* <<metric_id, sources>> in insertion order
SetDefaultAppend(out, src) ==
  IF \E i \in 1..Len(out) : out[i][1] = src.metric_id
  THEN [i \in 1..Len(out) |->
          IF out[i][1] = src.metric_id THEN <<out[i][1], Append(out[i][2], src)>>
          ELSE out[i]]
  ELSE Append(out, <<src.metric_id, <<src>> >>)

RECURSIVE GroupSources(_, _)
GroupSources(rows, out) ==
  IF rows = <<>> THEN out
  ELSE LET r == Head(rows)
       IN GroupSources(Tail(rows),
            IF r.enabled
            THEN SetDefaultAppend(out, MetricSource(r.metric_id, r.section, r.mc_key, r.weight))
            ELSE out)

\* A loader that does not look at metric_def.enabled.
LoadDisabledToo(tbl) ==
  GroupSources([i \in 1..Len(tbl) |-> [tbl[i] EXCEPT !.enabled = TRUE]], <<>>)

\* load_metric_sources: metric_id -> sources, enabled metrics only
load_metric_sources(tbl) == GroupSources(tbl, <<>>)

\* One pass of the inner loop (lines 673-681): what src adds to total.
SourceTerm(stats, src) ==
  LET sec_map == DictGet(stats, src.section, JDict(<<>>))
      v == IF IsDict(sec_map) THEN DictGet(sec_map, src.mc_key, JInt(0)) ELSE JInt(0)
      r == PyInt(v)
  IN IF v.t = "null" THEN 0
     ELSE IF r.ok THEN r.n * src.weight
     ELSE 0

RECURSIVE MetricTotal(_, _)
MetricTotal(stats, sources) ==
  IF sources = <<>> THEN 0
  ELSE SourceTerm(stats, Head(sources)) + MetricTotal(stats, Tail(sources))

MvRow(run_id, metric_id, uuid, value) ==
  [run_id |-> run_id, metric_id |-> metric_id, uuid |-> uuid, value |-> value]

\* A scan that buffers every total.
EmitAlways(total) == TRUE

\* line 682: only totals > 0 are buffered
EmitMetric(total) == total > 0

\* lines 670-683: the rows appended to metric_buf for one changed player
RECURSIVE ComputeMetricRows(_, _, _, _)
ComputeMetricRows(run_id, u_bin, stats, metric_sources) ==
  IF metric_sources = <<>> THEN <<>>
  ELSE LET metric_id == Head(metric_sources)[1]
           total == MetricTotal(stats, Head(metric_sources)[2])
       IN (IF EmitMetric(total) THEN <<MvRow(run_id, metric_id, u_bin, total)>> ELSE <<>>)
          \o ComputeMetricRows(run_id, u_bin, stats, Tail(metric_sources))

(***************************************************************************)
(* The store.  A view is a record of tables; rows are records.  Timestamps *)
(* are kept relative to the running pass: "now" is a value written with    *)
(* this pass's clock, "old" an earlier one, "null" SQL NULL.               *)
(***************************************************************************)
ProfileRow(run_id, uuid, name, name_source, name_checked_at, last_seen) ==
  [run_id |-> run_id, uuid |-> uuid, name |-> name, name_source |-> name_source,
   name_checked_at |-> name_checked_at, last_seen |-> last_seen]

StatsRow(run_id, uuid, stats_gzip, stats_sha1) ==
  [run_id |-> run_id, uuid |-> uuid, stats_gzip |-> stats_gzip, stats_sha1 |-> stats_sha1]

AwardRow(run_id, metric_id, place, uuid, points, value) ==
  [run_id |-> run_id, metric_id |-> metric_id, place |-> place, uuid |-> uuid,
   points |-> points, value |-> value]

EmptyStore ==
  [active_run_id |-> 0,          \* site_state.active_run_id, 0 for NULL
   import_run |-> {},            \* rows [id, generated_at]
   player_profile |-> {},
   player_stats |-> {},
   metric_value |-> {},
   metric_award |-> {},
   tmp_seen |-> {}]              \* the connection's temporary table

Older(ts) == IF ts = "now" THEN "old" ELSE ts

\* Time passes between two runs: what was written "now" is "old" for the next.
Age(view) ==
  [view EXCEPT
     !.import_run = {[r EXCEPT !.generated_at = Older(@)] : r \in @},
     !.player_profile = {[r EXCEPT !.name_checked_at = Older(@), !.last_seen = Older(@)] : r \in @}]

\* A statement: the function that issues it, what it does, its parameters
Op(handler, op, arg) == [h |-> handler, op |-> op, arg |-> arg]
Commit(handler) == Op(handler, "commit", <<>>)

SeqToSet(q) == {q[i] : i \in 1..Len(q)}

\* The primary keys: (run_id, metric_id, uuid) for metric_value, (run_id, uuid)
\* for player_profile and player_stats.
SameKey(table_name, a, b) ==
  /\ a.run_id = b.run_id
  /\ a.uuid = b.uuid
  /\ table_name = "metric_value" => a.metric_id = b.metric_id

\* INSERT ... ON DUPLICATE KEY UPDATE, row by row in the order of the list
RECURSIVE UpsertAll(_, _, _)
UpsertAll(table_name, table, rows) ==
  IF rows = <<>> THEN table
  ELSE UpsertAll(table_name,
                 {r \in table : ~SameKey(table_name, r, Head(rows))} \cup {Head(rows)},
                 Tail(rows))

\* ensure_run_id, lines 145-160: the run id it returns on a view
\* An ensure_run_id that takes every store for one without active run.
AlwaysNoActiveRun(view) == TRUE

\* lines 146-150: site_state.active_run_id is NULL
NoActiveRun(view) == view.active_run_id = 0

EnsureRunIdResult(view) ==
  IF NoActiveRun(view)
  THEN 1 + Cardinality(view.import_run)       \* cur.lastrowid of the insert
  ELSE view.active_run_id

\* lines 744-745
TouchRun(view, run_id) ==
  [view EXCEPT !.import_run =
     {IF r.id = run_id THEN [r EXCEPT !.generated_at = "now"] ELSE r : r \in @}]

\* lines 422-429: DELETE FROM metric_value WHERE run_id=... AND uuid IN (...)
DeleteMetricsOf(view, run_id, uuids) ==
  [view EXCEPT !.metric_value = {r \in @ : ~(r.run_id = run_id /\ r.uuid \in uuids)}]

\* A cleanup whose deletes match no row.
CleanupKeepsAll(table, run_id, seen) == table

\* lines 697-721: the three anti-join deletes against tmp_seen
CleanupTable(table, run_id, seen) ==
  {r \in table : ~(r.run_id = run_id /\ r.uuid \notin seen)}

(***************************************************************************)
(* recompute_king_points, lines 297-356.                                   *)
(***************************************************************************)
\* ORDER BY value DESC, uuid DESC
RankedBeforeDesc(a, b) == a.value > b.value \/ (a.value = b.value /\ a.uuid >= b.uuid)

\* ORDER BY value DESC, uuid ASC
RankedBefore(a, b) == a.value > b.value \/ (a.value = b.value /\ a.uuid <= b.uuid)

RECURSIVE OrderLimit(_, _)
OrderLimit(rows, limit) ==
  IF limit = 0 \/ rows = {} THEN <<>>
  ELSE LET first == CHOOSE a \in rows : \A b \in rows : RankedBefore(a, b)
       IN <<first>> \o OrderLimit(rows \ {first}, limit - 1)

\* sql_top3
SqlTop3(view, run_id, mid) ==
  OrderLimit({r \in view.metric_value : r.run_id = run_id /\ r.metric_id = mid /\ r.value > 0}, 3)

\* lines 329-338 for one metric: the awards of its ranked rows
AwardsOfMetric(run_id, mid, rows, award_points) ==
  LET places == {i \in 1..Len(rows) : i <= Len(award_points) /\ award_points[i] > 0}
      nth[i \in 0..Len(rows)] ==
        IF i = 0 THEN <<>>
        ELSE IF i \in places
             THEN Append(nth[i - 1],
                         AwardRow(run_id, mid, i, rows[i].uuid, award_points[i], rows[i].value))
             ELSE nth[i - 1]
  IN nth[Len(rows)]

\* lines 324-338: every award, metric by metric
RECURSIVE AllAwards(_, _, _, _, _)
AllAwards(view, run_id, metric_ids, king_metric_id, award_points) ==
  IF metric_ids = <<>> THEN <<>>
  ELSE LET mid == Head(metric_ids)
           rest == AllAwards(view, run_id, Tail(metric_ids), king_metric_id, award_points)
       IN IF mid = king_metric_id THEN rest
          ELSE AwardsOfMetric(run_id, mid, SqlTop3(view, run_id, mid), award_points) \o rest

\* A points_map that keeps a player's first award instead of adding them up.
RECURSIVE FirstPoints(_, _)
FirstPoints(awards, u) ==
  IF awards = <<>> THEN 0
  ELSE IF Head(awards).uuid = u THEN Head(awards).points ELSE FirstPoints(Tail(awards), u)

RECURSIVE SumPoints(_, _)
SumPoints(awards, u) ==
  IF awards = <<>> THEN 0
  ELSE (IF Head(awards).uuid = u THEN Head(awards).points ELSE 0) + SumPoints(Tail(awards), u)

\* lines 350-351: mv_rows from points_map
KingRows(run_id, king_metric_id, awards) ==
  {MvRow(run_id, king_metric_id, u, SumPoints(awards, u)) :
     u \in {w \in {awards[i].uuid : i \in 1..Len(awards)} : SumPoints(awards, w) > 0}}

(***************************************************************************)
(* Statements and transactions.  A handler's database work is a list of    *)
(* statements; Run executes the first k of them on <<committed store,      *)
(* connection view>>.  k below the length is the call k+1 raising.         *)
(***************************************************************************)
Exec(view, op) ==
  CASE op.op = "create_tmp_seen" -> [view EXCEPT !.tmp_seen = {}]
    [] op.op = "insert_run" ->
         [view EXCEPT !.import_run = @ \cup {[id |-> op.arg, generated_at |-> "now"]}]
    [] op.op = "set_active" -> [view EXCEPT !.active_run_id = op.arg]
    [] op.op = "ins_seen" -> [view EXCEPT !.tmp_seen = @ \cup SeqToSet(op.arg)]
    [] op.op = "upsert_profile" ->
         [view EXCEPT !.player_profile = UpsertAll("player_profile", @, op.arg)]
    [] op.op = "del_mv" -> DeleteMetricsOf(view, op.arg[1], SeqToSet(op.arg[2]))
    [] op.op = "upsert_stats" ->
         [view EXCEPT !.player_stats = UpsertAll("player_stats", @, op.arg)]
    [] op.op = "upsert_mv" ->
         [view EXCEPT !.metric_value = UpsertAll("metric_value", @, op.arg)]
    [] op.op = "cleanup_profile" ->
         [view EXCEPT !.player_profile = CleanupTable(@, op.arg, view.tmp_seen)]
    [] op.op = "cleanup_stats" ->
         [view EXCEPT !.player_stats = CleanupTable(@, op.arg, view.tmp_seen)]
    [] op.op = "cleanup_mv" ->
         [view EXCEPT !.metric_value = CleanupTable(@, op.arg, view.tmp_seen)]
    [] op.op = "del_king" ->
         [view EXCEPT !.metric_value =
            {r \in @ : ~(r.run_id = op.arg[1] /\ r.metric_id = op.arg[2])}]
    [] op.op = "del_awards" ->
         [view EXCEPT !.metric_award = {r \in @ : r.run_id # op.arg}]
    [] op.op = "ins_awards" -> [view EXCEPT !.metric_award = @ \cup SeqToSet(op.arg)]
    [] op.op = "ins_king" -> [view EXCEPT !.metric_value = @ \cup op.arg]
    [] op.op = "touch" -> TouchRun(view, op.arg)
    [] op.op = "update_name" ->
         [view EXCEPT !.player_profile =
            {IF r.run_id = op.arg.run_id /\ r.uuid = op.arg.uuid
             THEN [r EXCEPT !.name = op.arg.name,
                            !.name_source = IF op.arg.has_source THEN "mojang" ELSE @,
                            !.name_checked_at = IF op.arg.has_checked THEN "now" ELSE @]
             ELSE r : r \in @}]
    [] op.op = "mark_checked" ->
         [view EXCEPT !.player_profile =
            {IF r.run_id = op.arg.run_id /\ r.uuid = op.arg.uuid
             THEN [r EXCEPT !.name_checked_at = "now"] ELSE r : r \in @}]
    [] OTHER -> view

RECURSIVE Run(_, _, _)
Run(st, prog, k) ==
  IF k = 0 THEN st
  ELSE Run(IF Head(prog).op = "commit"
           THEN [db |-> st.txn, txn |-> st.txn]
           ELSE [db |-> st.db, txn |-> Exec(st.txn, Head(prog))],
           Tail(prog), k - 1)

\* ensure_run_id, lines 139-160: the statements of either branch
ensure_run_id(view) ==
  LET h == "ensure_run_id"
      run_id == EnsureRunIdResult(view)
  IN IF NoActiveRun(view)
     THEN <<Op(h, "insert_run", run_id), Op(h, "set_active", run_id), Commit(h)>>
     ELSE <<Op(h, "touch", run_id), Commit(h)>>

\* flush_seen, lines 359-366
flush_seen(seen_buf) ==
  IF seen_buf = <<>> THEN <<>>
  ELSE <<Op("flush_seen", "ins_seen", seen_buf), Commit("flush_seen")>>

\* flush_profiles, lines 369-408
\* A flush that forgets the buffered profile rows.
DropProfiles(profile_buf) == <<>>

flush_profiles(profile_buf) ==
  IF profile_buf = <<>> THEN <<>>
  ELSE <<Op("flush_profiles", "upsert_profile", profile_buf), Commit("flush_profiles")>>

\* flush_changed_batch, lines 411-468: three transactions
flush_changed_batch(run_id, changed_uuids, stats_rows, metric_rows) ==
  IF changed_uuids = <<>> THEN <<>>
  ELSE LET h == "flush_changed_batch"
       IN <<Op(h, "del_mv", <<run_id, changed_uuids>>), Commit(h)>>
          \o (IF stats_rows # <<>> THEN <<Op(h, "upsert_stats", stats_rows), Commit(h)>> ELSE <<>>)
          \o (IF metric_rows # <<>> THEN <<Op(h, "upsert_mv", metric_rows), Commit(h)>> ELSE <<>>)

\* lines 697-722
cleanup(run_id) ==
  <<Op("cleanup", "cleanup_profile", run_id), Op("cleanup", "cleanup_stats", run_id),
    Op("cleanup", "cleanup_mv", run_id), Commit("cleanup")>>

\* recompute_king_points as statements; the awards are read after the first
\* commit, from rows the deletes before it leave alone
recompute_king_points(view, store_awards, run_id, metric_ids, king_metric_id, award_points) ==
  LET awards == AllAwards(view, run_id, metric_ids, king_metric_id, award_points)
      mv_rows == KingRows(run_id, king_metric_id, awards)
      h == "recompute_king_points"
  IN <<Op(h, "del_king", <<run_id, king_metric_id>>)>>
     \o (IF store_awards THEN <<Op(h, "del_awards", run_id)>> ELSE <<>>)
     \o <<Commit(h)>>
     \o (IF store_awards /\ awards # <<>> THEN <<Op(h, "ins_awards", awards), Commit(h)>> ELSE <<>>)
     \o (IF awards # <<>> THEN <<Op(h, "ins_king", mv_rows), Commit(h)>> ELSE <<>>)

\* The uuids the executed statements named op_name wrote, among the first k
WrittenBy(prog, k, op_name) ==
  UNION {LET op == prog[i]
         IN IF op.op # op_name THEN {}
            ELSE IF op_name = "del_mv" THEN SeqToSet(op.arg[2])
            ELSE {r.uuid : r \in SeqToSet(op.arg)} : i \in 1..k}

(***************************************************************************)
(* Inputs the runs are given.                                              *)
(***************************************************************************)
Custom(play_time, jump, deaths) ==
  <<"minecraft:custom",
    JDict(<< <<"minecraft:play_time", JInt(play_time)>>,
             <<"minecraft:jump", JInt(jump)>>,
             <<"minecraft:deaths", JInt(deaths)>> >>)>>

\* {"stats": {custom: {play_time: 72000, jump: 1, deaths: 3}, mined: {stone: 10}}}
DocA == JDict(<< <<"stats", JDict(<< Custom(72000, 1, 3),
                   <<"minecraft:mined", JDict(<< <<"minecraft:stone", JInt(10)>> >>)>> >>)>> >>)

\* The same statistics without the "stats" wrapper, keys in another order and
\* with a banner key.
DocA2 ==
  JDict(<< <<"minecraft:mined",
             JDict(<< <<"minecraft:red_wall_banner", JInt(7)>>, <<"minecraft:stone", JInt(10)>> >>)>>,
           <<"minecraft:custom",
             JDict(<< <<"minecraft:deaths", JInt(3)>>, <<"minecraft:jump", JInt(1)>>,
                      <<"minecraft:play_time", JInt(72000)>> >>)>> >>)

\* Later statistics of the same kind of player: nothing mined, more jumps.
DocB == JDict(<< <<"stats", JDict(<< Custom(80000, 5, 3) >>)>> >>)

\* Below the play-time threshold.
DocLow == JDict(<< Custom(100, 9, 0),
                   <<"minecraft:mined", JDict(<< <<"minecraft:stone", JInt(4)>> >>)>> >>)

\* Jumps and deaths cancel, and the only mined count is 0.
DocZ == JDict(<< <<"stats", JDict(<< Custom(90000, 3, 3),
                   <<"minecraft:mined", JDict(<< <<"minecraft:stone", JInt(0)>> >>)>> >>)>> >>)

\* Stone mined and more jumps than deaths: a row of either metric.
DocC == JDict(<< <<"stats", JDict(<< Custom(80000, 5, 3),
                   <<"minecraft:mined", JDict(<< <<"minecraft:stone", JInt(10)>> >>)>> >>)>> >>)

\* The files a stats directory is made of, by what they hold.
FileChoices == {"absent", "unparsable", "A", "A2", "B", "low", "Z"}

\* A reader that takes any text for a player's statistics.
ReadFileLenient(f) ==
  IF f = "absent" THEN NoFile ELSE JsonFile(DocA)

ReadFile(f) ==
  CASE f = "absent" -> NoFile
    [] f = "unparsable" -> BadFile
    [] f = "A" -> JsonFile(DocA)
    [] f = "A2" -> JsonFile(DocA2)
    [] f = "B" -> JsonFile(DocB)
    [] f = "low" -> JsonFile(DocLow)
    [] f = "Z" -> JsonFile(DocZ)
    [] f = "C" -> JsonFile(DocC)

\* lines 593-601 and 653 of every file, computed once
ParsedStats == [f \in FileChoices \cup {"C"} |-> StatsOf(ReadFile(f).json)]
CanonicalBytes == [f \in FileChoices \cup {"C"} |-> json_bytes(ParsedStats[f])]

\* metric_source joined with metric_def, as seeded for the runs
SeededSources ==
  << SourceRow("blocks_mined", "minecraft:mined", "minecraft:stone", 1, TRUE),
     SourceRow("blocks_mined", "minecraft:mined", "minecraft:dirt", 1, TRUE),
     SourceRow("survival", "minecraft:custom", "minecraft:jump", 1, TRUE),
     SourceRow("survival", "minecraft:custom", "minecraft:deaths", -1, TRUE),
     SourceRow("retired", "minecraft:custom", "minecraft:play_time", 1, FALSE) >>

\* metric_source when metric_def has no enabled row
NoEnabledSources ==
  << SourceRow("retired", "minecraft:custom", "minecraft:play_time", 1, FALSE) >>

\* The first six of the sixteen bytes of a player id: ids 2k-1 and 2k differ
\* in the last byte only.
FirstSixBytes(u_bin) == (u_bin - 1) \div 2

\* uuidlib.UUID(bytes=u_bin).hex[:12], line 635: twelve hex digits are the
\* first six bytes
Hex12(u_bin) ==
  <<"000000000000", "000000000001", "000000000002", "000000000003">>[FirstSixBytes(u_bin) + 1]

\* usercache.json as load_usercache returns it: player 1 is in it
SeededUsercache == [u \in {1} |-> "Alice"]

\* argparse defaults, lines 488-490, and thresholds of one row
DefaultFlush == [seen |-> 2000, profiles |-> 2000, changed |-> 800]
FlushChoices == {DefaultFlush, [seen |-> 1, profiles |-> 1, changed |-> 1]}

\* thresholds of one and two rows, not the same for every buffer
SmallFlushChoices ==
  {[seen |-> 2, profiles |-> 2, changed |-> 2], [seen |-> 1, profiles |-> 2, changed |-> 2],
   [seen |-> 2, profiles |-> 1, changed |-> 1]}

\* --king-points after line 727's split: the default and a list with a
\* negative entry and fewer than three entries
KingPointChoices == {<<5, 3, 1>>, <<-5, 3>>}

\* lines 728-731 and 737: the award_points tuple
AwardPoints(pts) ==
  LET base == IF pts = <<>> THEN <<5, 3, 1>> ELSE pts
  IN [i \in 1..3 |-> IF i <= Len(base) THEN base[i] ELSE 0]

KingMetricId == "king"

(***************************************************************************)
(* State.                                                                  *)
(***************************************************************************)
VARIABLES
  files,          \* the stats directory: player -> file
  usercache,      \* name_map: uuid -> name
  metric_source,  \* the metric_source/metric_def tables
  schema,         \* which optional columns and tables exist
  db,             \* the committed store
  txn,            \* the importer connection's view (db plus uncommitted writes)
  lock,           \* holder of the advisory lock: 0 free, 1 the importer, 2 another job
  pc,             \* where the importer's main is
  loc,            \* main's local variables
  hist,           \* what happened in this and the previous run (history)
  menu,           \* what the behaviour may choose from: arguments, files, faults
  inst,           \* competing process instances: importers and name resolvers
  locks,          \* the server's named locks: lock name -> holding instance, 0 free
  tree            \* a stats tree handed to the metric computation on its own

env == <<usercache, metric_source, schema, menu, inst, locks, tree>>
vars == <<files, usercache, metric_source, schema, menu, inst, locks, tree, db, txn, lock, pc,
          loc, hist>>

\* everything but the competing instances and the named locks
single == <<files, usercache, metric_source, schema, menu, tree, db, txn, lock, pc, loc, hist>>

NoArgs == [dry_run |-> FALSE, flush |-> DefaultFlush, excluded |-> {}, no_king |-> FALSE]

IdleLocals ==
  [args |-> NoArgs, lock_acquired |-> FALSE, run_id |-> 0, metric_sources |-> <<>>,
   existing_hash |-> <<>>, existing_profiles |-> <<>>, todo |-> {},
   processed |-> 0, kept |-> 0, changed |-> 0,
   seen_buf |-> <<>>, profile_buf |-> <<>>, changed_uuids |-> <<>>,
   stats_buf |-> <<>>, metric_buf |-> <<>>,
   rc |-> -1, raised |-> FALSE]

NoHistory ==
  [faults |-> 0,              \* calls that raised and kills, so far
   prev |-> "none",           \* how the previous run ended
   prev_rc |-> -1,            \* what the previous run returned, -1 when it raised
   prev_bytes |-> <<>>,       \* canonical bytes the previous completed run kept, by player
   prev_counts |-> <<0, 0>>,  \* processed and kept of the previous completed run
   prev_excluded |-> {},      \* --exclude-uuid of the previous completed run
   interrupted |-> FALSE,     \* a run was interrupted and none has completed since
   same_input |-> FALSE,      \* no file changed since the last completed run ended, or
                              \* since the interrupted run started
   names_before |-> <<>>,     \* the stored names when this run started, by player
   king_before |-> {},        \* the composite metric_value rows when this run started
   profiles_before |-> {},    \* player_profile when this resolver run started
   prev_failed |-> {},        \* players the previous resolver run marked after a failed lookup
   kept_set |-> {},           \* players kept by this run's scan
   written |-> {},            \* players with a stats or metric statement of the scan
   recomputed |-> {},         \* players whose metrics the scan computed
   scan_done |-> FALSE, flushed |-> FALSE, cleanup_ran |-> FALSE, king_ran |-> FALSE,
   failed_in |-> "none",      \* the step whose database call raised
   mv_before |-> {},          \* metric_value when the failing changed-batch flush began
   removed |-> {}]            \* players cleanup deleted rows of

\* Runs over every kind of file, flushing at the end or after every row.
ScanMenu ==
  [files |-> FileChoices, dry_run |-> {FALSE}, flush |-> FlushChoices,
   king_points |-> {<<5, 3, 1>>}, no_king |-> {FALSE}, faults |-> 0, rival |-> FALSE,
   excluded |-> {{}}, sources |-> {SeededSources}, names |-> FALSE, junk |-> FALSE]

\* Dry runs among the runs, and runs that end before the scan: the lock is
\* held by another job, the stats directory is missing, no metric is enabled.
DryMenu ==
  [files |-> {"absent", "A", "B"}, dry_run |-> BOOLEAN,
   flush |-> {DefaultFlush}, king_points |-> {<<5, 3, 1>>}, no_king |-> {FALSE},
   faults |-> 0, rival |-> TRUE,
   excluded |-> {{}}, sources |-> {SeededSources, NoEnabledSources}, names |-> FALSE, junk |-> FALSE]

\* Runs in which database calls raise and processes are killed.
FaultMenu ==
  [files |-> {"absent", "A", "B"}, dry_run |-> {FALSE},
   flush |-> FlushChoices, king_points |-> {<<5, 3, 1>>}, no_king |-> {FALSE},
   faults |-> MaxFaults, rival |-> FALSE,
   excluded |-> {{}}, sources |-> {SeededSources}, names |-> FALSE, junk |-> FALSE]

\* Runs with every --king-points and --no-king.
KingMenu ==
  [files |-> {"absent", "A", "B"}, dry_run |-> {FALSE},
   flush |-> {DefaultFlush}, king_points |-> KingPointChoices, no_king |-> BOOLEAN,
   faults |-> 0, rival |-> FALSE,
   excluded |-> {{}}, sources |-> {SeededSources}, names |-> FALSE, junk |-> FALSE]

\* Runs with and without --exclude-uuid for the second player.
ExcludeMenu ==
  [files |-> {"absent", "A", "B"}, dry_run |-> {FALSE},
   flush |-> FlushChoices, king_points |-> {<<5, 3, 1>>}, no_king |-> {FALSE},
   faults |-> 0, rival |-> FALSE,
   excluded |-> {{}, {2}}, sources |-> {SeededSources}, names |-> FALSE, junk |-> FALSE]

\* Runs over a directory that may hold a file whose name is no player id.
JunkMenu ==
  [files |-> {"absent", "A", "unparsable"}, dry_run |-> {FALSE},
   flush |-> FlushChoices, king_points |-> {<<5, 3, 1>>}, no_king |-> {FALSE},
   faults |-> 0, rival |-> FALSE,
   excluded |-> {{}}, sources |-> {SeededSources}, names |-> FALSE, junk |-> TRUE]

\* Runs between which usercache.json changes and the name resolver renames.
NameMenu ==
  [files |-> {"absent", "A"}, dry_run |-> {FALSE},
   flush |-> {DefaultFlush}, king_points |-> {<<5, 3, 1>>}, no_king |-> {FALSE},
   faults |-> 0, rival |-> FALSE,
   excluded |-> {{}}, sources |-> {SeededSources}, names |-> TRUE, junk |-> FALSE]

\* Runs with small flush thresholds over files that give one or two metric rows.
BufferMenu ==
  [files |-> {"absent", "A", "C"}, dry_run |-> {FALSE},
   flush |-> SmallFlushChoices, king_points |-> {<<5, 3, 1>>}, no_king |-> {FALSE},
   faults |-> 0, rival |-> FALSE,
   excluded |-> {{}}, sources |-> {SeededSources}, names |-> FALSE, junk |-> FALSE]

Menus == {ScanMenu, DryMenu, FaultMenu, KingMenu, ExcludeMenu, JunkMenu, NameMenu, BufferMenu}

\* Process instances that compete for the lock: importers first, then resolvers.
NImporters == 2
NResolvers == 1
Instances == 1..(NImporters + NResolvers)
KindOf(i) == IF i <= NImporters THEN "importer" ELSE "resolver"

\* --lock-name: the default of both programs, and another name
DefaultLockName == "mc_stats_import"
LockNames == {DefaultLockName, "other_lock"}

NotRunning == [pc |-> "idle", lock_name |-> DefaultLockName, lock_acquired |-> FALSE, rc |-> -1]

Init ==
  /\ menu \in Menus
  /\ inst = [i \in Instances |-> NotRunning]
  /\ locks = [n \in LockNames |-> 0]
  /\ tree = JDict(<<>>)
  /\ files = [p \in FileNames |-> "absent"]
  /\ usercache = SeededUsercache
  /\ metric_source \in menu.sources
  /\ schema = [name_source |-> TRUE, name_checked_at |-> TRUE, metric_award |-> TRUE]
  /\ db = EmptyStore
  /\ txn = EmptyStore
  /\ lock = 0
  /\ pc = "idle"
  /\ loc = IdleLocals
  /\ hist = NoHistory

\* A database call may raise only while the fault budget lasts.
MayStop(prog, k) == k = Len(prog) \/ hist.faults < menu.faults

\* The connection runs k statements of prog.
Execute(prog, k) ==
  LET st == Run([db |-> db, txn |-> txn], prog, k)
  IN db' = st.db /\ txn' = st.txn

(***************************************************************************)
(* The environment: the game server rewrites a file, another job takes the *)
(* lock.                                                                   *)
(***************************************************************************)
\* The game server rewrites or removes a file between two runs.  After an
\* interrupted run the operator reruns the importer first.
FileChange(p, f) ==
  /\ pc = "idle"
  /\ p \notin Players => menu.junk
  /\ ~hist.interrupted
  /\ files[p] # f
  /\ files' = [files EXCEPT ![p] = f]
  /\ hist' = [hist EXCEPT !.same_input = FALSE, !.prev_counts = <<0, 0>>]
  /\ UNCHANGED <<env, db, txn, lock, pc, loc>>

\* usercache.json gains, loses or changes the entry of a player between two
\* runs; name_map is what load_usercache makes of it.
UsercacheChange(u, name) ==
  /\ pc = "idle"
  /\ menu.names
  /\ usercache' = IF name = ""
                   THEN [v \in DOMAIN usercache \ {u} |-> usercache[v]]
                   ELSE (u :> name) @@ usercache
  /\ usercache' # usercache
  /\ UNCHANGED <<files, metric_source, schema, menu, inst, locks, tree, db, txn, lock, pc, loc,
                 hist>>

\* The name resolver, between two runs of the importer, has looked up a
\* player of the active run and stored the name (resolve_names.py, lines
\* 278-283).
ResolverRenames(u) ==
  /\ pc = "idle"
  /\ menu.names
  /\ \E r \in db.player_profile :
       /\ r.run_id = db.active_run_id /\ r.uuid = u /\ r.name # "Steve"
       /\ LET renamed == [r EXCEPT !.name = "Steve", !.name_source = "mojang",
                                    !.name_checked_at = "now"]
          IN /\ db' = [db EXCEPT !.player_profile = (@ \ {r}) \cup {renamed}]
             /\ txn' = db'
  /\ UNCHANGED <<files, env, lock, pc, loc, hist>>

\* A server that grants the name to every caller.
GetLockAlways(holder, me) == TRUE

\* GET_LOCK(name, timeout) = 1 exactly when no other connection holds the name
GetLock(holder, me) == holder = 0 \/ holder = me

\* Another job (an importer, the resolver) takes the lock; only the importer's
\* GET_LOCK can tell, so it is taken just before that call.
OtherAcquire ==
  /\ menu.rival
  /\ pc = "lock"
  /\ GetLock(lock, 2)
  /\ lock' = 2
  /\ UNCHANGED <<files, env, db, txn, pc, loc, hist>>

OtherRelease ==
  /\ lock = 2
  /\ lock' = 0
  /\ UNCHANGED <<files, env, db, txn, pc, loc, hist>>

(***************************************************************************)
(* main of importer_streaming.py, one action per step between commits.     *)
(***************************************************************************)
\* history after k of prog's statements ran: a raise uses up one fault
Stopped(h, prog, k) ==
  IF k = Len(prog) THEN h
  ELSE [h EXCEPT !.faults = @ + 1,
                 !.failed_in = prog[k + 1].h,
                 !.mv_before = IF prog[k + 1].h = "flush_changed_batch"
                               THEN db.metric_value ELSE {}]

\* lines 510-514: the stats directory is missing, main returns 2 at once
StatsDirMissing ==
  /\ pc = "idle"
  /\ menu.rival
  /\ hist.prev # "exit2"
  /\ hist' = [hist EXCEPT !.prev = "exit2", !.prev_rc = 2, !.prev_counts = <<0, 0>>]
  /\ UNCHANGED <<files, env, db, txn, lock, pc, loc>>

\* the non-empty names the store holds for the players of its active run
StoredNames(view) ==
  LET rows == {r \in view.player_profile : r.run_id = view.active_run_id /\ r.name # ""}
  IN [u \in {r.uuid : r \in rows} |-> (CHOOSE r \in rows : r.uuid = u).name]

\* lines 501-526: arguments parsed, usercache loaded, connection opened
Begin ==
  /\ pc = "idle"
  /\ \E dry_run \in menu.dry_run, flush \in menu.flush, excluded \in menu.excluded,
        no_king \in menu.no_king :
       loc' = [IdleLocals EXCEPT
                 !.args = [dry_run |-> dry_run, flush |-> flush, excluded |-> excluded,
                           no_king |-> no_king]]
  /\ pc' = "lock"
  /\ db' = Age(db)
  /\ txn' = Age(db)
  /\ hist' = [NoHistory EXCEPT !.faults = hist.faults, !.prev = hist.prev,
                               !.prev_rc = hist.prev_rc,
                               !.prev_bytes = hist.prev_bytes,
                               !.prev_counts = hist.prev_counts,
                               !.prev_excluded = hist.prev_excluded,
                               !.interrupted = hist.interrupted,
                               !.same_input = hist.same_input,
                               !.names_before = StoredNames(db),
                               !.king_before =
                                  {r \in db.metric_value : r.metric_id = KingMetricId}]
  /\ UNCHANGED <<files, env, lock>>

\* acquire_db_lock and lines 529-532
Acquire ==
  /\ pc = "lock"
  /\ IF GetLock(lock, 1)
     THEN /\ lock' = 1
          /\ loc' = [loc EXCEPT !.lock_acquired = TRUE]
          /\ pc' = "run_id"
     ELSE /\ lock' = lock
          /\ loc' = [loc EXCEPT !.rc = 10]
          /\ pc' = "finally"
  /\ UNCHANGED <<files, env, db, txn, hist>>

\* line 534: ensure_run_id
EnsureRun ==
  /\ pc = "run_id"
  /\ LET prog == ensure_run_id(txn)
     IN \E k \in 0..Len(prog) :
          /\ MayStop(prog, k)
          /\ Execute(prog, k)
          /\ hist' = Stopped(hist, prog, k)
          /\ IF k = Len(prog)
             THEN /\ loc' = [loc EXCEPT !.run_id = EnsureRunIdResult(txn)]
                  /\ pc' = "load"
             ELSE /\ loc' = [loc EXCEPT !.raised = TRUE]
                  /\ pc' = "finally"
  /\ UNCHANGED <<files, env, lock>>

\* load_existing_hashes
\* A loader that finds no stored digest.
LoadNoHashes(view, run_id) == <<>>

load_existing_hashes(view, run_id) ==
  LET rows == {r \in view.player_stats : r.run_id = run_id}
  IN [u \in {r.uuid : r \in rows} |-> (CHOOSE r \in rows : r.uuid = u).stats_sha1]

\* load_existing_profile_meta: uuid -> <<name, name_source, name_checked_at>>
load_existing_profile_meta(view, run_id, has_source, has_checked) ==
  LET rows == {r \in view.player_profile : r.run_id = run_id /\ r.name # ""}
  IN [u \in {r.uuid : r \in rows} |->
        LET r == CHOOSE q \in rows : q.uuid = u
        IN <<r.name,
             IF has_source THEN r.name_source ELSE "null",
             IF has_checked THEN r.name_checked_at ELSE "null">>]

\* lines 537-559
Load ==
  /\ pc = "load"
  /\ LET metric_sources == load_metric_sources(metric_source)
         prog == IF loc.args.dry_run THEN <<>>
                 ELSE <<Op("main", "create_tmp_seen", <<>>), Commit("main")>>
     IN IF metric_sources = <<>>
        THEN /\ loc' = [loc EXCEPT !.rc = 3]
             /\ pc' = "finally"
             /\ UNCHANGED <<db, txn, hist>>
        ELSE \E k \in 0..Len(prog) :
               /\ MayStop(prog, k)
               /\ Execute(prog, k)
               /\ hist' = Stopped(hist, prog, k)
               /\ IF k = Len(prog)
                  THEN /\ loc' = [loc EXCEPT
                            !.metric_sources = metric_sources,
                            !.existing_hash = load_existing_hashes(txn, loc.run_id),
                            !.existing_profiles =
                               load_existing_profile_meta(txn, loc.run_id, schema.name_source,
                                                          schema.name_checked_at),
                            !.todo = {p \in FileNames : ReadFile(files[p]).kind # "absent"}]
                       /\ pc' = "scan"
                  ELSE /\ loc' = [loc EXCEPT !.raised = TRUE]
                       /\ pc' = "finally"
  /\ UNCHANGED <<files, env, lock>>

\* A resolution that knows the identity cache and the fallback only.
ResolveNameNoStore(u_bin, name_map, existing_profiles, has_checked) ==
  IF u_bin \in DOMAIN name_map /\ name_map[u_bin] # ""
  THEN <<name_map[u_bin], "usercache", IF has_checked THEN "now" ELSE "null">>
  ELSE <<Hex12(u_bin), "fallback", "null">>

\* lines 618-637: <<name, name_source, name_checked_at>> of a kept player
ResolveName(u_bin, name_map, existing_profiles, has_checked) ==
  IF u_bin \in DOMAIN name_map /\ name_map[u_bin] # ""
  THEN <<name_map[u_bin], "usercache", IF has_checked THEN "now" ELSE "null">>
  ELSE IF u_bin \in DOMAIN existing_profiles
       THEN LET meta == existing_profiles[u_bin]
            IN <<meta[1], IF meta[2] = "null" THEN "unknown" ELSE meta[2],
                 IF has_checked THEN meta[3] ELSE "null">>
       ELSE <<Hex12(u_bin), "fallback", "null">>

\* A scan that compares no digests: every kept player counts as changed.
HashNeverMatches(existing_hash, u_bin, digest) == FALSE

\* line 656: existing_hash.get(u_bin) == sha1
HashUnchanged(existing_hash, u_bin, digest) ==
  u_bin \in DOMAIN existing_hash /\ existing_hash[u_bin] = digest

\* lines 584-588: uuid_to_bin(uuid_str) does not raise
ValidName(name) == name \in Players

\* A scan that reads no exclusion list.
NeverExcluded(u_bin, excluded) == FALSE

\* line 589: u_bin in excluded
IsExcluded(u_bin, excluded) == u_bin \in excluded

\* A comparison that lets a buffer fill one row past its threshold.
OverThreshold(buf, threshold) == Len(buf) > threshold

\* lines 615, 648, 683: len(buf) >= int(args.flush_...)
ReachedThreshold(buf, threshold) == Len(buf) >= threshold

\* lines 582-686: one iteration of the scan loop, with the flushes it triggers
ScanFile(p, f, stats, bytes) ==
  /\ pc = "scan"
  /\ p \in loc.todo
  /\ LET a == loc.args
         keep == /\ ValidName(p)
                 /\ ~IsExcluded(p, a.excluded)
                 /\ f.kind = "json"
                 /\ PlayTime(stats) >= MinPlayTicks
         seen1 == IF a.dry_run THEN loc.seen_buf ELSE Append(loc.seen_buf, p)
         prog1 == IF ~a.dry_run /\ ReachedThreshold(seen1, a.flush.seen) THEN flush_seen(seen1) ELSE <<>>
         nm == ResolveName(p, usercache, loc.existing_profiles, schema.name_checked_at)
         prow == ProfileRow(loc.run_id, p, nm[1],
                            IF schema.name_source THEN nm[2] ELSE "null", nm[3], "now")
         prof1 == IF a.dry_run THEN loc.profile_buf ELSE Append(loc.profile_buf, prow)
         prog2 == IF ~a.dry_run /\ ReachedThreshold(prof1, a.flush.profiles)
                  THEN flush_profiles(prof1) ELSE <<>>
         digest == sha1(bytes)
         is_changed == ~HashUnchanged(loc.existing_hash, p, digest)
         store == is_changed /\ ~a.dry_run
         chg1 == IF store THEN Append(loc.changed_uuids, p) ELSE loc.changed_uuids
         stat1 == IF store THEN Append(loc.stats_buf, StatsRow(loc.run_id, p, bytes, digest))
                  ELSE loc.stats_buf
         met1 == IF store
                 THEN loc.metric_buf \o ComputeMetricRows(loc.run_id, p, stats, loc.metric_sources)
                 ELSE loc.metric_buf
         prog3 == IF store /\ ReachedThreshold(chg1, a.flush.changed)
                  THEN flush_changed_batch(loc.run_id, chg1, stat1, met1) ELSE <<>>
         prog == prog1 \o prog2 \o prog3
         n1 == Len(prog1)
         n2 == Len(prog1) + Len(prog2)
     IN IF ~keep
        THEN /\ loc' = [loc EXCEPT !.todo = @ \ {p}, !.processed = @ + 1]
             /\ UNCHANGED <<db, txn, pc, hist>>
        ELSE \E k \in 0..Len(prog) :
               /\ MayStop(prog, k)
               /\ Execute(prog, k)
               /\ pc' = IF k = Len(prog) THEN "scan" ELSE "finally"
               /\ LET ok == k = Len(prog)
                      \* how far the iteration got before the call that raised
                      past1 == ok \/ k >= n1
                      past2 == ok \/ k >= n2
                  IN /\ loc' = [loc EXCEPT
                          !.todo = @ \ {p},
                          !.processed = @ + 1,
                          !.kept = @ + 1,
                          !.changed = IF past2 /\ is_changed THEN @ + 1 ELSE @,
                          !.existing_hash = IF past2 /\ is_changed
                                            THEN (p :> digest) @@ @ ELSE @,
                          !.seen_buf = IF past1 /\ prog1 # <<>> THEN <<>> ELSE seen1,
                          !.profile_buf = IF ~past1 THEN @
                                          ELSE IF past2 /\ prog2 # <<>> THEN <<>> ELSE prof1,
                          !.changed_uuids = IF ~past2 THEN @
                                            ELSE IF ok /\ prog3 # <<>> THEN <<>> ELSE chg1,
                          !.stats_buf = IF ~past2 THEN @
                                        ELSE IF ok /\ prog3 # <<>> THEN <<>> ELSE stat1,
                          !.metric_buf = IF ~past2 THEN @
                                         ELSE IF ok /\ prog3 # <<>> THEN <<>> ELSE met1,
                          !.raised = ~ok]
                     /\ hist' = [Stopped(hist, prog, k) EXCEPT
                          !.kept_set = @ \cup {p},
                          !.recomputed = IF past2 /\ store THEN @ \cup {p} ELSE @,
                          !.written = @ \cup WrittenBy(prog, k, "del_mv")
                                        \cup WrittenBy(prog, k, "upsert_stats")
                                        \cup WrittenBy(prog, k, "upsert_mv")]
  /\ UNCHANGED <<files, env, lock>>

\* one iteration of the loop of lines 582-684 over the file of name p
ProcessFile(p) ==
  ScanFile(p, ReadFile(files[p]), ParsedStats[files[p]], CanonicalBytes[files[p]])

\* lines 688-691 in dry-run mode
DryRunEnd ==
  /\ pc = "scan"
  /\ loc.todo = {}
  /\ loc.args.dry_run
  /\ loc' = [loc EXCEPT !.rc = 0]
  /\ pc' = "finally"
  /\ hist' = [hist EXCEPT !.scan_done = TRUE]
  /\ UNCHANGED <<files, env, db, txn, lock>>

\* A flush_all that leaves the seen buffer alone.
flush_all_but_seen(run_id, seen_buf, profile_buf, changed_uuids, stats_buf, metric_buf) ==
  flush_profiles(profile_buf)
  \o flush_changed_batch(run_id, changed_uuids, stats_buf, metric_buf)

\* flush_all, lines 569-580
flush_all(run_id, seen_buf, profile_buf, changed_uuids, stats_buf, metric_buf) ==
  flush_seen(seen_buf) \o flush_profiles(profile_buf)
  \o flush_changed_batch(run_id, changed_uuids, stats_buf, metric_buf)

\* lines 688-694: the scan is over, the remaining buffers are flushed
FlushAll ==
  /\ pc = "scan"
  /\ loc.todo = {}
  /\ ~loc.args.dry_run
  /\ LET prog == flush_all(loc.run_id, loc.seen_buf, loc.profile_buf, loc.changed_uuids,
                           loc.stats_buf, loc.metric_buf)
     IN \E k \in 0..Len(prog) :
          /\ MayStop(prog, k)
          /\ Execute(prog, k)
          /\ hist' = [Stopped(hist, prog, k) EXCEPT
                        !.scan_done = TRUE,
                        !.flushed = k = Len(prog),
                        !.written = @ \cup WrittenBy(prog, k, "del_mv")
                                      \cup WrittenBy(prog, k, "upsert_stats")
                                      \cup WrittenBy(prog, k, "upsert_mv")]
          /\ IF k = Len(prog)
             THEN /\ loc' = [loc EXCEPT !.seen_buf = <<>>, !.profile_buf = <<>>,
                                        !.changed_uuids = <<>>, !.stats_buf = <<>>,
                                        !.metric_buf = <<>>]
                  /\ pc' = "cleanup"
             ELSE /\ loc' = [loc EXCEPT !.raised = TRUE]
                  /\ pc' = "finally"
  /\ UNCHANGED <<files, env, lock>>

\* the players a table has rows of
PlayersIn(table) == {r.uuid : r \in table}

\* lines 696-722
Cleanup ==
  /\ pc = "cleanup"
  /\ LET prog == cleanup(loc.run_id)
     IN \E k \in 0..Len(prog) :
          /\ MayStop(prog, k)
          /\ Execute(prog, k)
          /\ hist' = [Stopped(hist, prog, k) EXCEPT
                        !.cleanup_ran = TRUE,
                        !.removed =
                           (PlayersIn(db.player_profile) \cup PlayersIn(db.player_stats)
                              \cup PlayersIn(db.metric_value))
                           \ (PlayersIn(db'.player_profile) \cup PlayersIn(db'.player_stats)
                                \cup PlayersIn(db'.metric_value))]
          /\ IF k = Len(prog)
             THEN /\ loc' = loc
                  /\ pc' = "king"
             ELSE /\ loc' = [loc EXCEPT !.raised = TRUE]
                  /\ pc' = "finally"
  /\ UNCHANGED <<files, env, lock>>

\* list(metric_sources.keys())
MetricIds(metric_sources) == [i \in 1..Len(metric_sources) |-> metric_sources[i][1]]

\* A king step whose exception leaves main.
AfterKingRaises(failed) == IF failed THEN "finally" ELSE "touch"

\* lines 740-741: an exception of the recompute is logged, main goes on
AfterKing(failed) == "touch"

\* lines 724-741: the recompute, whose exceptions are logged and dropped
King ==
  /\ pc = "king"
  /\ \E pts \in menu.king_points :
       LET no_king == loc.args.no_king
           prog == IF no_king THEN <<>>
                   ELSE recompute_king_points(txn, schema.metric_award, loc.run_id,
                                              MetricIds(loc.metric_sources), KingMetricId,
                                              AwardPoints(pts))
       IN \E k \in 0..Len(prog) :
            /\ MayStop(prog, k)
            /\ Execute(prog, k)
            /\ hist' = [Stopped(hist, prog, k) EXCEPT !.king_ran = ~no_king]
            /\ pc' = AfterKing(k < Len(prog))
  /\ UNCHANGED <<files, env, lock, loc>>

\* lines 743-749
Touch ==
  /\ pc = "touch"
  /\ LET prog == <<Op("main", "touch", loc.run_id), Commit("main")>>
     IN \E k \in 0..Len(prog) :
          /\ MayStop(prog, k)
          /\ Execute(prog, k)
          /\ hist' = Stopped(hist, prog, k)
          /\ loc' = IF k = Len(prog) THEN [loc EXCEPT !.rc = 0] ELSE [loc EXCEPT !.raised = TRUE]
  /\ pc' = "finally"
  /\ UNCHANGED <<files, env, lock>>

\* canonical bytes of the players the scan keeps, by player
KeptBytes(fs, kept_set) ==
  [p \in kept_set |-> CanonicalBytes[fs[p]]]

\* how a run that reaches the finally block ended
Outcome(l) ==
  IF l.raised THEN "interrupted"
  ELSE IF l.rc = 0 THEN (IF l.args.dry_run THEN "dry" ELSE "completed")
  ELSE "early"

\* The connection is gone: its temporary table and uncommitted work with it.
Closed(view) == [view EXCEPT !.tmp_seen = {}]

\* history when a run ends with outcome o
Ended(h, o) ==
  [NoHistory EXCEPT
            !.faults = h.faults,
            !.prev = o,
            !.prev_rc = IF o = "interrupted" THEN -1 ELSE loc.rc,
            !.prev_bytes = IF o = "completed" THEN KeptBytes(files, h.kept_set) ELSE <<>>,
            !.prev_counts = IF o = "completed" THEN <<loc.processed, loc.kept>> ELSE <<0, 0>>,
            !.prev_excluded = IF o = "completed" THEN loc.args.excluded ELSE {},
            !.interrupted = IF o = "interrupted" THEN TRUE
                            ELSE IF o = "completed" THEN FALSE ELSE h.interrupted,
            !.same_input = IF o = "interrupted" THEN (IF h.interrupted THEN h.same_input ELSE TRUE)
                           ELSE IF o = "completed" THEN TRUE ELSE h.same_input]

\* A finally block without the release, on a connection that stays open.
LockKept(holder, lock_acquired) == holder

\* lines 751-760: who holds the lock after release_db_lock, called when
\* lock_acquired, and conn.close()
LockAfterFinally(holder, lock_acquired) == IF lock_acquired THEN 0 ELSE holder

\* lines 751-760: release_db_lock (RELEASE_LOCK, then conn.commit()) when the
\* lock was acquired, then conn.close(); a failure of either is ignored.  The
\* commit publishes whatever the interrupted step left uncommitted, unless the
\* connection is dead.
Finally ==
  /\ pc = "finally"
  /\ \E alive \in (IF loc.raised THEN BOOLEAN ELSE {TRUE}) :
       LET committed == IF loc.lock_acquired /\ alive THEN txn ELSE db
       IN /\ db' = Closed(committed)
          /\ txn' = Closed(committed)
  /\ lock' = LockAfterFinally(lock, loc.lock_acquired)
  /\ pc' = "idle"
  /\ loc' = IdleLocals
  /\ hist' = Ended(hist, Outcome(loc))
  /\ UNCHANGED <<files, env>>

\* The process is killed (or the host goes down) anywhere in a run.
Kill ==
  /\ pc # "idle"
  /\ hist.faults < menu.faults
  /\ db' = Closed(db)
  /\ txn' = Closed(db)
  /\ lock' = IF loc.lock_acquired THEN 0 ELSE lock
  /\ pc' = "idle"
  /\ loc' = IdleLocals
  /\ hist' = [Ended(hist, "interrupted") EXCEPT !.faults = @ + 1]
  /\ UNCHANGED <<files, env>>

Next ==
  \/ \E p \in FileNames, f \in menu.files : FileChange(p, f)
  \/ \E u \in Players, name \in {"", "Alice", "Zoe"} : UsercacheChange(u, name)
  \/ \E u \in Players : ResolverRenames(u)
  \/ OtherAcquire
  \/ OtherRelease
  \/ StatsDirMissing
  \/ Begin
  \/ Acquire
  \/ EnsureRun
  \/ Load
  \/ \E p \in FileNames : ProcessFile(p)
  \/ DryRunEnd
  \/ FlushAll
  \/ Cleanup
  \/ King
  \/ Touch
  \/ Finally
  \/ Kill

Spec == Init /\ [][Next]_vars

(***************************************************************************)
(* Several instances of the two programs against one database server.  An  *)
(* instance is a process with a connection of its own; only its lock       *)
(* discipline is followed, step by step through main.                      *)
(***************************************************************************)
\* the steps of main that follow acquire_db_lock, in order
StepsOf(kind) ==
  IF kind = "importer"
  THEN <<"run_id", "load", "scan", "flush", "cleanup", "king", "touch">>
  ELSE <<"candidates", "lookup", "update">>

\* RELEASE_LOCK(name), and the end of a session: only the holder's lock goes
ReleaseLock(holder, me) == IF holder = me THEN 0 ELSE holder

\* connect_db, lock_acquired = False
InstStart(i) ==
  /\ inst[i].pc = "idle"
  /\ \E n \in LockNames :
       inst' = [inst EXCEPT ![i] = [NotRunning EXCEPT !.pc = "lock", !.lock_name = n]]
  /\ UNCHANGED <<single, locks>>

\* acquire_db_lock returns: True with the lock taken, or False when the wait
\* (--lock-timeout: 5 s for the importer, none for the resolver) ends with the
\* name still held by another connection; main then returns 10
InstAcquire(i) ==
  /\ inst[i].pc = "lock"
  /\ LET n == inst[i].lock_name
     IN IF GetLock(locks[n], i)
        THEN /\ locks' = [locks EXCEPT ![n] = i]
             /\ inst' = [inst EXCEPT ![i].lock_acquired = TRUE,
                                     ![i].pc = StepsOf(KindOf(i))[1]]
        ELSE /\ locks' = locks
             /\ inst' = [inst EXCEPT ![i].rc = 10, ![i].pc = "finally"]
  /\ UNCHANGED single

\* one step of the work under the lock; any of its database calls may raise
InstStep(i) ==
  /\ inst[i].lock_acquired
  /\ LET steps == StepsOf(KindOf(i))
     IN /\ \E k \in 1..Len(steps) :
             /\ inst[i].pc = steps[k]
             /\ \E raises \in BOOLEAN :
                  inst' = [inst EXCEPT
                     ![i].pc = IF raises THEN "finally"
                               ELSE IF k < Len(steps) THEN steps[k + 1] ELSE "finally",
                     ![i].rc = IF raises THEN @ ELSE IF k < Len(steps) THEN @ ELSE 0]
  /\ UNCHANGED <<single, locks>>

\* the finally block: release_db_lock when lock_acquired, then conn.close()
InstFinally(i) ==
  /\ inst[i].pc = "finally"
  /\ LET n == inst[i].lock_name
         released == IF inst[i].lock_acquired THEN ReleaseLock(locks[n], i) ELSE locks[n]
     IN locks' = [locks EXCEPT ![n] = ReleaseLock(released, i)]
  /\ inst' = [inst EXCEPT ![i] = NotRunning]
  /\ UNCHANGED single

\* the process is killed: the server ends its session and frees its lock
InstKill(i) ==
  /\ inst[i].pc # "idle"
  /\ LET n == inst[i].lock_name
     IN locks' = [locks EXCEPT ![n] = ReleaseLock(@, i)]
  /\ inst' = [inst EXCEPT ![i] = NotRunning]
  /\ UNCHANGED single

InitLock ==
  /\ menu = ScanMenu
  /\ inst = [i \in Instances |-> NotRunning]
  /\ locks = [n \in LockNames |-> 0]
  /\ tree = JDict(<<>>)
  /\ files = [p \in FileNames |-> "absent"]
  /\ usercache = SeededUsercache
  /\ metric_source = SeededSources
  /\ schema = [name_source |-> TRUE, name_checked_at |-> TRUE, metric_award |-> TRUE]
  /\ db = EmptyStore
  /\ txn = EmptyStore
  /\ lock = 0
  /\ pc = "idle"
  /\ loc = IdleLocals
  /\ hist = NoHistory

NextLock ==
  \E i \in Instances :
    \/ InstStart(i)
    \/ InstAcquire(i)
    \/ InstStep(i)
    \/ InstFinally(i)
    \/ InstKill(i)

SpecLock == InitLock /\ [][NextLock]_vars

(***************************************************************************)
(* Properties.                                                             *)
(***************************************************************************)
(***************************************************************************)
(* The leaderboard recompute on its own: main's king step on a store whose *)
(* metric_value rows are arbitrary, then once more on the rows it left, as *)
(* the next pass does when no player has changed.                          *)
(***************************************************************************)
NKingPlayers == 4
KingPlayers == 1..NKingPlayers

\* --king-points: the default, a negative and a zero award, four entries
KingPointArgs == {<<5, 3, 1>>, <<5, -3, 1>>, <<2, 0, 4>>, <<4, 3, 2, 1>>}

\* metric_value with the given values of the two seeded metrics (0: no row),
\* a row of a disabled metric, and a composite row of an earlier recompute
KingStore(mined, survival) ==
  [EmptyStore EXCEPT
     !.active_run_id = 1,
     !.import_run = {[id |-> 1, generated_at |-> "old"]},
     !.tmp_seen = KingPlayers,
     !.metric_value =
        {MvRow(1, "blocks_mined", u, mined[u]) : u \in {w \in KingPlayers : mined[w] > 0}}
        \cup {MvRow(1, "survival", u, survival[u]) : u \in {w \in KingPlayers : survival[w] > 0}}
        \cup {MvRow(1, "retired", 1, 50), MvRow(1, KingMetricId, NKingPlayers, 9)}]

InitKing ==
  /\ \E pts \in KingPointArgs :
       menu = [KingMenu EXCEPT !.king_points = {pts}, !.no_king = {FALSE}]
  /\ \E mined \in [KingPlayers -> {0, 5, 10}], survival \in [KingPlayers -> {0, 7}] :
       /\ db = KingStore(mined, survival)
       /\ txn = KingStore(mined, survival)
  /\ inst = [i \in Instances |-> NotRunning]
  /\ locks = [n \in LockNames |-> 0]
  /\ tree = JDict(<<>>)
  /\ files = [p \in FileNames |-> "absent"]
  /\ usercache = SeededUsercache
  /\ metric_source = SeededSources
  /\ schema = [name_source |-> TRUE, name_checked_at |-> TRUE, metric_award |-> TRUE]
  /\ lock = 1
  /\ pc = "king"
  /\ loc = [IdleLocals EXCEPT !.lock_acquired = TRUE, !.run_id = 1,
                               !.metric_sources = load_metric_sources(SeededSources)]
  /\ hist = [NoHistory EXCEPT !.scan_done = TRUE, !.flushed = TRUE, !.cleanup_ran = TRUE]

\* The next pass reaches its king step with metric_value as this one left it.
NextPassKing ==
  /\ pc = "touch"
  /\ hist.prev = "none"
  /\ pc' = "king"
  /\ hist' = [hist EXCEPT !.prev = "completed", !.king_ran = FALSE]
  /\ UNCHANGED <<files, env, db, txn, lock, loc>>

NextKing == King \/ NextPassKing

SpecKing == InitKing /\ [][NextKing]_vars

(***************************************************************************)
(* The metric computation on its own: a changed player whose stats tree    *)
(* holds any kind of JSON value under the keys the metrics read, then the  *)
(* flush of that player's batch.                                           *)
(***************************************************************************)
\* no such key (or section) in the tree
Missing == [t |-> "missing", n |-> 0, kv |-> <<>>]

\* what a key may hold: 0, 3, -4, 2.5, -1.5, "2", true, text, null, a list, an
\* object, or nothing
ValueChoices ==
  {JInt(0), JInt(3), JInt(-4), JFloat(5), JFloat(-3), JNumStr(2), JBool(TRUE), JText, JNull,
   JList, JDict(<<>>), Missing}

\* the pairs of a section, a missing key left out
Pairs(keys, values) ==
  LET idx == {i \in 1..Len(keys) : values[i].t # "missing"}
      nth[i \in 0..Len(keys)] ==
        IF i = 0 THEN <<>>
        ELSE IF i \in idx THEN Append(nth[i - 1], <<keys[i], values[i]>>) ELSE nth[i - 1]
  IN nth[Len(keys)]

\* a stats tree, already unwrapped and stripped: the custom section with the
\* play time, jump and deaths, and whatever is under minecraft:mined
MetricTree(jump, deaths, mined) ==
  JDict(Pairs(<<"minecraft:custom", "minecraft:mined">>,
              << JDict(<< <<"minecraft:play_time", JInt(MinPlayTicks)>> >>
                       \o Pairs(<<"minecraft:jump", "minecraft:deaths">>, <<jump, deaths>>)),
                 mined >>))

\* metric_source with other weights
HeavierSources ==
  << SourceRow("blocks_mined", "minecraft:mined", "minecraft:stone", 2, TRUE),
     SourceRow("blocks_mined", "minecraft:mined", "minecraft:dirt", 1, TRUE),
     SourceRow("survival", "minecraft:custom", "minecraft:jump", 3, TRUE),
     SourceRow("survival", "minecraft:custom", "minecraft:deaths", -2, TRUE),
     SourceRow("retired", "minecraft:custom", "minecraft:play_time", 1, FALSE) >>

InitMetric ==
  /\ \E jump, deaths \in ValueChoices,
        mined \in {Missing, JList}
                  \cup {JDict(Pairs(<<"minecraft:stone">>, <<v>>)) : v \in ValueChoices} :
       tree = MetricTree(jump, deaths, mined)
  /\ metric_source \in {SeededSources, HeavierSources}
  /\ menu = ScanMenu
  /\ inst = [i \in Instances |-> NotRunning]
  /\ locks = [n \in LockNames |-> 0]
  /\ files = [p \in FileNames |-> "absent"]
  /\ usercache = SeededUsercache
  /\ schema = [name_source |-> TRUE, name_checked_at |-> TRUE, metric_award |-> TRUE]
  /\ db = [EmptyStore EXCEPT !.active_run_id = 1,
                             !.import_run = {[id |-> 1, generated_at |-> "now"]}]
  /\ txn = db
  /\ lock = 1
  /\ pc = "scan"
  /\ loc = [IdleLocals EXCEPT !.lock_acquired = TRUE, !.run_id = 1,
                               !.metric_sources = load_metric_sources(metric_source),
                               !.todo = {1}]
  /\ hist = NoHistory

\* lines 659-683 for player 1, whose digest is not in existing_hash
MetricStep ==
  /\ pc = "scan"
  /\ loc.todo = {1}
  /\ LET bytes == json_bytes(tree)
         digest == sha1(bytes)
     IN /\ ~HashUnchanged(loc.existing_hash, 1, digest)
        /\ loc' = [loc EXCEPT
               !.todo = {},
               !.processed = @ + 1,
               !.kept = @ + 1,
               !.changed = @ + 1,
               !.existing_hash = (1 :> digest) @@ @,
               !.changed_uuids = Append(@, 1),
               !.stats_buf = Append(@, StatsRow(loc.run_id, 1, bytes, digest)),
               !.metric_buf = @ \o ComputeMetricRows(loc.run_id, 1, tree, loc.metric_sources)]
  /\ hist' = [hist EXCEPT !.kept_set = {1}, !.recomputed = {1}]
  /\ UNCHANGED <<files, env, db, txn, lock, pc>>

NextMetric == MetricStep \/ FlushAll

SpecMetric == InitMetric /\ [][NextMetric]_vars

(***************************************************************************)
(* Canonicalisation on its own: one player's file, which the game server   *)
(* rewrites between passes with its keys in another order, with a banner   *)
(* key added, changed or removed, or with other statistics.                *)
(***************************************************************************)
\* the documents the file starts from
CanonDocs == {DocA, DocB, DocLow}

\* what a banner key counts
BannerValues == {7, 8}

\* how many banner keys a document holds at most
MaxBanners == 1

\* how many banner keys a document holds, at any depth
RECURSIVE BannerCount(_)
BannerCount(j) ==
  IF ~IsDict(j) THEN 0
  ELSE LET n[i \in 0..Len(j.kv)] ==
             IF i = 0 THEN 0
             ELSE n[i - 1] + BannerCount(j.kv[i][2])
                  + (IF EndsWithWallBanner(j.kv[i][1]) THEN 1 ELSE 0)
       IN n[Len(j.kv)]

\* the pairs of a dict with pairs i and i + 1 exchanged
SwapAt(kv, i) == [kv EXCEPT ![i] = kv[i + 1], ![i + 1] = kv[i]]

\* the documents that differ from j by the order of two neighbouring keys of
\* one dict, at any depth
RECURSIVE Reorderings(_)
Reorderings(j) ==
  IF ~IsDict(j) THEN {}
  ELSE {JDict(SwapAt(j.kv, i)) : i \in 1..(Len(j.kv) - 1)}
       \cup UNION {{JDict([j.kv EXCEPT ![i] = <<j.kv[i][1], c>>]) : c \in Reorderings(j.kv[i][2])} :
                     i \in 1..Len(j.kv)}

\* the documents that differ from j by the banner key of one dict, at any
\* depth: added, removed, or with another count
RECURSIVE BannerEdits(_)
BannerEdits(j) ==
  IF ~IsDict(j) THEN {}
  ELSE (IF HasKey(j, "minecraft:red_wall_banner")
        THEN {JDict(SelectSeq(j.kv, LAMBDA pr : pr[1] # "minecraft:red_wall_banner"))}
             \cup ({JDict([i \in 1..Len(j.kv) |->
                             IF j.kv[i][1] = "minecraft:red_wall_banner"
                             THEN <<j.kv[i][1], JInt(v)>> ELSE j.kv[i]]) : v \in BannerValues}
                   \ {j})
        ELSE {JDict(Append(j.kv, <<"minecraft:red_wall_banner", JInt(v)>>)) : v \in BannerValues})
       \cup UNION {{JDict([j.kv EXCEPT ![i] = <<j.kv[i][1], c>>]) : c \in BannerEdits(j.kv[i][2])} :
                     i \in 1..Len(j.kv)}

InitCanon ==
  /\ tree \in CanonDocs
  /\ metric_source = SeededSources
  /\ menu = ScanMenu
  /\ inst = [i \in Instances |-> NotRunning]
  /\ locks = [n \in LockNames |-> 0]
  /\ files = [p \in FileNames |-> "absent"]
  /\ usercache = SeededUsercache
  /\ schema = [name_source |-> TRUE, name_checked_at |-> TRUE, metric_award |-> TRUE]
  /\ db = [EmptyStore EXCEPT !.active_run_id = 1,
                             !.import_run = {[id |-> 1, generated_at |-> "now"]}]
  /\ txn = db
  /\ lock = 1
  /\ pc = "scan"
  /\ loc = [IdleLocals EXCEPT !.lock_acquired = TRUE, !.run_id = 1,
                               !.metric_sources = load_metric_sources(SeededSources),
                               !.todo = {1}]
  /\ hist = NoHistory

\* lines 582-684 for the file of player 1, which holds the document tree
CanonStep == ScanFile(1, JsonFile(tree), StatsOf(tree), json_bytes(StatsOf(tree)))

\* The game server rewrites the file, and the next pass reaches its scan with
\* the digests the store holds (line 547).
RewriteFile ==
  /\ pc = "cleanup"
  /\ tree' \in Reorderings(tree) \cup (CanonDocs \ {tree})
                \cup {t \in BannerEdits(tree) : BannerCount(t) <= MaxBanners}
  /\ db' = Age(db)
  /\ txn' = Age(db)
  /\ pc' = "scan"
  /\ loc' = [loc EXCEPT !.existing_hash = load_existing_hashes(db, loc.run_id),
                        !.todo = {1}, !.processed = 0, !.kept = 0, !.changed = 0]
  /\ hist' = [NoHistory EXCEPT !.prev = "completed"]
  /\ UNCHANGED <<files, usercache, metric_source, schema, menu, inst, locks, lock>>

NextCanon == CanonStep \/ FlushAll \/ RewriteFile

SpecCanon == InitCanon /\ [][NextCanon]_vars

(***************************************************************************)
(* The name resolver (src/resolve_names.py): runs of main against a store  *)
(* whose profiles have placeholder or known names, checked never, within   *)
(* the refresh interval ("old", "now") or before it ("expired").           *)
(***************************************************************************)
\* the largest --max-per-run
MaxPerRun == 2

\* --refresh-days: no refresh, or the default
RefreshDayChoices == {0, 30}

\* name_checked_at in the order of time, NULL as COALESCE(.., '1970-01-01')
TsRank(ts) == CASE ts = "null" -> 0 [] ts = "expired" -> 1 [] ts = "old" -> 2 [] OTHER -> 3

\* The refresh interval passes: every check is older than it.
Elapse(view) ==
  [view EXCEPT !.player_profile =
     {[r EXCEPT !.name_checked_at = IF @ = "null" THEN @ ELSE "expired"] : r \in @}]

\* line 149, missing_expr: name IS NULL OR name='' OR name='Unknown' OR name
\* REGEXP '^[0-9a-f]{12}$'
IsPlaceholder(name) == name \in {"", "Unknown"} \cup {Hex12(u) : u \in Players}

\* lines 151-159, where_sql
WhereSql(r, refresh_days, has_checked) ==
  \/ IsPlaceholder(r.name)
  \/ /\ refresh_days > 0 /\ has_checked
     /\ r.name_checked_at \in {"null", "expired"}

\* lines 164-168, order_missing
OrderMissing(r, has_source) ==
  IF (has_source /\ r.name_source \in {"fallback", "unknown"}) \/ IsPlaceholder(r.name)
  THEN 1 ELSE 0

\* lines 180-183: ORDER BY order_missing DESC, name_checked_at ASC, uuid ASC
CandidateBefore(a, b, has_source) ==
  LET ma == OrderMissing(a, has_source)
      mb == OrderMissing(b, has_source)
      ta == TsRank(a.name_checked_at)
      tb == TsRank(b.name_checked_at)
  IN \/ ma > mb
     \/ ma = mb /\ ta < tb
     \/ ma = mb /\ ta = tb /\ a.uuid <= b.uuid

\* A LIMIT that returns every row.
RECURSIVE NoLimit(_, _, _)
NoLimit(rows, limit, has_source) ==
  IF rows = {} THEN <<>>
  ELSE LET first == CHOOSE a \in rows : \A b \in rows : CandidateBefore(a, b, has_source)
       IN <<first>> \o NoLimit(rows \ {first}, limit, has_source)

\* line 184: LIMIT over the ordered rows
RECURSIVE CandidateLimit(_, _, _)
CandidateLimit(rows, limit, has_source) ==
  IF limit = 0 \/ rows = {} THEN <<>>
  ELSE LET first == CHOOSE a \in rows : \A b \in rows : CandidateBefore(a, b, has_source)
       IN <<first>> \o CandidateLimit(rows \ {first}, limit - 1, has_source)

\* fetch_candidates, lines 141-207
fetch_candidates(view, run_id, max_per_run, refresh_days, has_source, has_checked) ==
  CandidateLimit({r \in view.player_profile :
                    r.run_id = run_id /\ WhereSql(r, refresh_days, has_checked)},
                 max_per_run, has_source)

ResolverArgs == [max_per_run |-> 1, refresh_days |-> 0]

ResolverIdle ==
  [args |-> ResolverArgs, lock_acquired |-> FALSE, run_id |-> 0, candidates |-> <<>>,
   updates_ok |-> <<>>, updates_fail |-> <<>>, rc |-> -1, raised |-> FALSE]

\* Resolver runs in which a database call may raise and another job may hold
\* the lock.
ResolverMenu == [FaultMenu EXCEPT !.rival = TRUE]

\* what the store may hold for player p: a fallback never checked or checked
\* within the interval, a name from usercache.json checked within or before
\* the interval, an empty name
ProfileChoices(p) ==
  {ProfileRow(1, p, Hex12(p), "fallback", "null", "old"),
   ProfileRow(1, p, Hex12(p), "fallback", "old", "old"),
   ProfileRow(1, p, "Alice", "usercache", "old", "old"),
   ProfileRow(1, p, "Alice", "usercache", "expired", "old"),
   ProfileRow(1, p, "", "unknown", "null", "old")}

InitResolver ==
  /\ menu = ResolverMenu
  /\ inst = [i \in Instances |-> NotRunning]
  /\ locks = [n \in LockNames |-> 0]
  /\ tree = JDict(<<>>)
  /\ files = [p \in FileNames |-> "absent"]
  /\ usercache = SeededUsercache
  /\ metric_source = SeededSources
  /\ schema \in [name_source : BOOLEAN, name_checked_at : BOOLEAN, metric_award : {TRUE}]
  /\ \E active \in {0, 1}, rows \in [Players -> SUBSET {1}] :
       \E profiles \in SUBSET (UNION {ProfileChoices(p) : p \in Players}) :
         /\ \A a, b \in profiles : a.uuid = b.uuid => a = b
         /\ db = [EmptyStore EXCEPT
                    !.active_run_id = active,
                    !.import_run = {[id |-> 1, generated_at |-> "old"]},
                    !.player_profile =
                       {IF schema.name_checked_at THEN r ELSE [r EXCEPT !.name_checked_at = "null"] :
                          r \in profiles},
                    !.player_stats = {StatsRow(1, 1, CanonicalBytes["A"], sha1(CanonicalBytes["A"]))},
                    !.metric_value = {MvRow(1, "blocks_mined", 1, 10)}]
  /\ txn = db
  /\ lock = 0
  /\ pc = "idle"
  /\ loc = ResolverIdle
  /\ hist = NoHistory

\* lines 211-230: arguments parsed, connection opened; time has passed since
\* the run before, the refresh interval or less
ResolverBegin ==
  /\ pc = "idle"
  /\ \E max_per_run \in 1..MaxPerRun, refresh_days \in RefreshDayChoices :
       loc' = [ResolverIdle EXCEPT
                 !.args = [max_per_run |-> max_per_run, refresh_days |-> refresh_days]]
  /\ \E elapsed \in BOOLEAN :
       /\ db' = IF elapsed THEN Elapse(Age(db)) ELSE Age(db)
       /\ txn' = db'
  /\ pc' = "lock"
  /\ hist' = [NoHistory EXCEPT !.faults = hist.faults, !.prev_failed = hist.prev_failed,
                               !.profiles_before = db'.player_profile]
  /\ UNCHANGED <<files, env, lock>>

\* lines 232-236: acquire_db_lock, return 10 when refused
ResolverAcquire ==
  /\ pc = "lock"
  /\ IF GetLock(lock, 1)
     THEN /\ lock' = 1
          /\ loc' = [loc EXCEPT !.lock_acquired = TRUE]
          /\ pc' = "candidates"
     ELSE /\ lock' = lock
          /\ loc' = [loc EXCEPT !.rc = 10]
          /\ pc' = "finally"
  /\ UNCHANGED <<files, env, db, txn, hist>>

\* lines 238-250: get_active_run_id (SystemExit when NULL), the two column
\* checks, fetch_candidates; its ORDER BY names name_checked_at, so the query
\* raises when the column does not exist
ResolverFetch ==
  /\ pc = "candidates"
  /\ LET prog == <<Op("fetch_candidates", "select", <<>>)>>
         run_id == txn.active_run_id
     IN \E k \in 0..Len(prog) :
          /\ MayStop(prog, k)
          /\ hist' = Stopped(hist, prog, k)
          /\ IF k = Len(prog) /\ run_id # 0 /\ schema.name_checked_at
             THEN /\ loc' = [loc EXCEPT
                       !.run_id = run_id,
                       !.candidates =
                          fetch_candidates(txn, run_id, loc.args.max_per_run,
                                           loc.args.refresh_days, schema.name_source,
                                           schema.name_checked_at)]
                  /\ pc' = "lookup"
             ELSE /\ loc' = [loc EXCEPT !.raised = TRUE]
                  /\ pc' = "finally"
  /\ UNCHANGED <<files, env, db, txn, lock>>

\* lines 259-273: one lookup per candidate; mojang_name_for_uuid finds the
\* current name of some and returns None for the others
ResolverLookup ==
  /\ pc = "lookup"
  /\ \E found \in SUBSET (1..Len(loc.candidates)) :
       LET c == loc.candidates
           ok[i \in 0..Len(c)] ==
             IF i = 0 THEN <<>>
             ELSE IF i \in found
                  THEN Append(ok[i - 1], [name |-> "Steve", run_id |-> loc.run_id,
                                          uuid |-> c[i].uuid,
                                          has_source |-> schema.name_source,
                                          has_checked |-> schema.name_checked_at])
                  ELSE ok[i - 1]
           fail[i \in 0..Len(c)] ==
             IF i = 0 THEN <<>>
             ELSE IF i \notin found /\ schema.name_checked_at
                  THEN Append(fail[i - 1], [run_id |-> loc.run_id, uuid |-> c[i].uuid])
                  ELSE fail[i - 1]
       IN loc' = [loc EXCEPT !.updates_ok = ok[Len(c)], !.updates_fail = fail[Len(c)]]
  /\ pc' = "update"
  /\ UNCHANGED <<files, env, db, txn, lock, hist>>

\* lines 275-315: the UPDATE of every resolved row, then of every failed one,
\* one commit, return 0
ResolverUpdate ==
  /\ pc = "update"
  /\ LET h == "resolve_names"
         prog == [i \in 1..Len(loc.updates_ok) |-> Op(h, "update_name", loc.updates_ok[i])]
                 \o [i \in 1..Len(loc.updates_fail) |-> Op(h, "mark_checked", loc.updates_fail[i])]
                 \o <<Commit(h)>>
     IN \E k \in 0..Len(prog) :
          /\ MayStop(prog, k)
          /\ Execute(prog, k)
          /\ hist' = Stopped(hist, prog, k)
          /\ loc' = IF k = Len(prog) THEN [loc EXCEPT !.rc = 0] ELSE [loc EXCEPT !.raised = TRUE]
  /\ pc' = "finally"
  /\ UNCHANGED <<files, env, lock>>

\* lines 323-328: release_db_lock (with its commit) when lock_acquired, then
\* conn.close()
ResolverFinally ==
  /\ pc = "finally"
  /\ \E alive \in (IF loc.raised THEN BOOLEAN ELSE {TRUE}) :
       LET committed == IF loc.lock_acquired /\ alive THEN txn ELSE db
       IN /\ db' = committed
          /\ txn' = committed
  /\ lock' = LockAfterFinally(lock, loc.lock_acquired)
  /\ pc' = "idle"
  /\ hist' = [NoHistory EXCEPT
               !.faults = hist.faults,
               !.prev_failed = IF loc.rc = 0 /\ ~loc.raised
                               THEN {loc.updates_fail[i].uuid : i \in 1..Len(loc.updates_fail)}
                               ELSE {}]
  /\ loc' = ResolverIdle
  /\ UNCHANGED <<files, env>>

NextResolver ==
  \/ ResolverBegin
  \/ ResolverAcquire
  \/ ResolverFetch
  \/ ResolverLookup
  \/ ResolverUpdate
  \/ ResolverFinally
  \/ OtherAcquire
  \/ OtherRelease

SpecResolver == InitResolver /\ [][NextResolver]_vars

\* the rows of player p in a table
RowsOf(table, p) == {r \in table : r.uuid = p}

\* the metric_value rows the scan writes: those of the source-computed metrics
ScanMetrics(view, p) == {r \in view.metric_value : r.uuid = p /\ r.metric_id # KingMetricId}

\* The previous pass completed (not a dry run), kept p, and p's canonical
\* bytes are the same now.
SameBytesAsCompletedPass(p) ==
  /\ hist.prev = "completed"
  /\ p \in DOMAIN hist.prev_bytes
  /\ CanonicalBytes[files[p]] = hist.prev_bytes[p]

\* C1 (hash-skip): when the previous pass completed and stored player p's
\* stats and p's canonical bytes are unchanged, no step of the scan writes a
\* player_stats row of p, deletes or inserts a metric_value row of p, or
\* computes p's metrics.
C1_HashSkip ==
  [][\A p \in Players :
       (pc = "scan" /\ SameBytesAsCompletedPass(p))
       => /\ RowsOf(txn'.player_stats, p) = RowsOf(txn.player_stats, p)
          /\ RowsOf(db'.player_stats, p) = RowsOf(db.player_stats, p)
          /\ ScanMetrics(txn', p) = ScanMetrics(txn, p)
          /\ ScanMetrics(db', p) = ScanMetrics(db, p)
          /\ p \notin hist'.written
          /\ p \notin hist'.recomputed]_vars

\* A scan has passed over an unchanged player, whose file is laid out
\* differently than the bytes stored, and has written another player's rows.
C1_Witness ==
  \E p, q \in Players :
    /\ pc = "scan"
    /\ SameBytesAsCompletedPass(p)
    /\ files[p] = "A2"
    /\ p \in hist.kept_set
    /\ p \notin hist.written
    /\ RowsOf(db.player_stats, p) # {}
    /\ q \in hist.written

\* The players the rules of the scan keep: not on the exclusion list, the
\* file parses and its play time is at or above the threshold.
KeptByRules ==
  {p \in Players : /\ p \notin loc.args.excluded
                    /\ ReadFile(files[p]).kind = "json"
                    /\ PlayTime(StatsOf(ReadFile(files[p]).json)) >= MinPlayTicks}

\* cleanup has committed in this pass and the pass has not failed since
CleanupCommitted ==
  \/ pc \in {"king", "touch"}
  \/ pc = "finally" /\ loc.rc = 0 /\ ~loc.raised /\ ~loc.args.dry_run

\* the rows of the active run in the three per-player tables of a view
PlayerRows(view, run_id) ==
  {r \in view.player_profile \cup view.player_stats \cup view.metric_value : r.run_id = run_id}

\* C2 (cleanup completeness): once cleanup has committed in a non-dry-run
\* pass, tmp_seen holds exactly the players this pass kept, no player_profile,
\* player_stats or metric_value row of the active run (composite rows
\* included) belongs to a player outside tmp_seen; and the cleanup step
\* removes no row of a player in tmp_seen.
C2_CleanupComplete ==
  /\ [](CleanupCommitted =>
          /\ txn.tmp_seen = KeptByRules
          /\ \A r \in PlayerRows(db, loc.run_id) \cup PlayerRows(txn, loc.run_id) :
                r.uuid \in txn.tmp_seen)
  /\ [][pc = "cleanup" =>
          \A p \in txn.tmp_seen :
            /\ RowsOf(PlayerRows(txn', loc.run_id), p) = RowsOf(PlayerRows(txn, loc.run_id), p)
            /\ RowsOf(PlayerRows(db', loc.run_id), p) = RowsOf(PlayerRows(db, loc.run_id), p)]_vars

\* A pass has completed in which cleanup removed the rows of a player of an
\* earlier pass and left those of a player it kept.
C2_Witness ==
  /\ pc = "finally" /\ loc.rc = 0 /\ ~loc.raised
  /\ hist.removed # {}
  /\ \E p \in txn.tmp_seen : RowsOf(db.metric_value, p) # {} /\ RowsOf(db.player_stats, p) # {}

\* What one uninterrupted pass over the present files leaves in the three
\* tables, whatever they held before.
ExpectedStats(run_id) ==
  {StatsRow(run_id, p, CanonicalBytes[files[p]], sha1(CanonicalBytes[files[p]])) :
     p \in KeptByRules}

ExpectedSourceMetrics(run_id, metric_sources) ==
  UNION {SeqToSet(ComputeMetricRows(run_id, p, ParsedStats[files[p]], metric_sources)) :
           p \in KeptByRules}

ExpectedMetrics(run_id, metric_sources) ==
  LET rows == ExpectedSourceMetrics(run_id, metric_sources)
      awards == AllAwards([EmptyStore EXCEPT !.metric_value = rows], run_id,
                          MetricIds(metric_sources), KingMetricId, AwardPoints(<<>>))
  IN rows \cup KingRows(run_id, KingMetricId, awards)

ExpectedProfiles(run_id, view) ==
  /\ {r.uuid : r \in view.player_profile} = KeptByRules
  /\ \A r \in view.player_profile :
        /\ r.run_id = run_id
        /\ r.last_seen = "now"
        /\ r.name = IF r.uuid \in DOMAIN usercache THEN usercache[r.uuid] ELSE Hex12(r.uuid)

\* a complete pass is ending that reran an interrupted pass on the same files
RerunCompleted ==
  /\ pc = "finally" /\ loc.rc = 0 /\ ~loc.raised /\ ~loc.args.dry_run
  /\ hist.interrupted
  /\ hist.same_input

\* C3 (crash-rerun safety): a complete pass over the same files after an
\* interrupted pass leaves player_profile, player_stats and metric_value as
\* one uninterrupted pass would; in particular every kept player has all of
\* their positive metric values.
C3_CrashRerunSafe ==
  RerunCompleted =>
    /\ ExpectedProfiles(loc.run_id, db)
    /\ db.player_stats = ExpectedStats(loc.run_id)
    /\ db.metric_value = ExpectedMetrics(loc.run_id, loc.metric_sources)

\* every row of a batch is in a table, or none is
BatchVisible(batch, table) == \A i \in 1..Len(batch) : batch[i] \in table
BatchInvisible(batch, table) == \A i \in 1..Len(batch) : batch[i] \notin table

\* metric_value after the whole changed batch: the rows of its players
\* replaced by the batch's metric rows
MetricsAfterBatch(before, run_id, changed_uuids, metric_rows) ==
  UpsertAll("metric_value",
            {r \in before : ~(r.run_id = run_id /\ r.uuid \in SeqToSet(changed_uuids))},
            metric_rows)

\* a database call of flush function h has just raised; the batch is still in
\* main's buffers
FlushFailed(h) == pc = "finally" /\ loc.raised /\ hist.failed_in = h

\* C4 (flush atomicity): when a flush fails, the store holds the whole batch
\* or nothing of it; for a changed-player batch the metric deletes, the stats
\* upserts and the metric inserts are all visible or none is.
C4_FlushAtomic ==
  /\ FlushFailed("flush_seen") =>
        \/ SeqToSet(loc.seen_buf) \subseteq db.tmp_seen
        \/ SeqToSet(loc.seen_buf) \cap db.tmp_seen = {}
  /\ FlushFailed("flush_profiles") =>
        \/ BatchVisible(loc.profile_buf, db.player_profile)
        \/ BatchInvisible(loc.profile_buf, db.player_profile)
  /\ FlushFailed("flush_changed_batch") =>
        \/ /\ db.metric_value = hist.mv_before
           /\ BatchInvisible(loc.stats_buf, db.player_stats)
        \/ /\ db.metric_value = MetricsAfterBatch(hist.mv_before, loc.run_id,
                                                   loc.changed_uuids, loc.metric_buf)
           /\ BatchVisible(loc.stats_buf, db.player_stats)

\* instance i is past lock acquisition
PastAcquisition(i) == inst[i].lock_acquired

\* C5 (mutual exclusion): of the instances that use the same lock name,
\* importers and resolvers alike, at most one at a time is past lock
\* acquisition, so no two are in their scan, flush, cleanup, leaderboard or
\* name-update steps together.
C5_MutualExclusion ==
  \A i, j \in Instances :
    (i # j /\ PastAcquisition(i) /\ PastAcquisition(j))
    => inst[i].lock_name # inst[j].lock_name

\* An importer is in its scan, the resolver has been turned away with code 10
\* on the same name, and another importer works under another name.
C5_Witness ==
  \E i, j, k \in Instances :
    /\ KindOf(i) = "importer" /\ inst[i].pc = "scan"
    /\ KindOf(j) = "resolver" /\ inst[j].pc = "finally" /\ inst[j].rc = 10
    /\ inst[j].lock_name = inst[i].lock_name
    /\ k # i /\ PastAcquisition(k) /\ inst[k].lock_name # inst[i].lock_name

FlushFunctions == {"flush_seen", "flush_profiles", "flush_changed_batch"}

\* every buffer of the scan is in the committed store: the seen set is whole,
\* every kept player has this pass's profile row and the stats row of its file
AllFlushed(view, run_id) ==
  /\ view.tmp_seen = KeptByRules
  /\ \A p \in KeptByRules :
        \E r \in view.player_profile : r.run_id = run_id /\ r.uuid = p /\ r.last_seen = "now"
  /\ ExpectedStats(run_id) \subseteq view.player_stats

\* C6 (step ordering): cleanup starts only from a finished scan with every
\* buffer flushed and committed, the leaderboard recompute starts only from a
\* committed cleanup, and a run in which a flush failed or the scan was
\* aborted executes neither.
C6_StepOrdering ==
  /\ [](/\ hist.cleanup_ran => (hist.scan_done /\ hist.flushed)
        /\ hist.king_ran => (hist.cleanup_ran /\ hist.failed_in # "cleanup")
        /\ (hist.failed_in \in FlushFunctions \/ (loc.raised /\ ~hist.flushed))
             => (~hist.cleanup_ran /\ ~hist.king_ran))
  /\ [][
         /\ (pc' = "cleanup" /\ pc # "cleanup")
             => (/\ pc = "scan" /\ loc.todo = {}
                 /\ db' = txn'
                 /\ AllFlushed(db', loc.run_id)
                 /\ loc'.seen_buf = <<>> /\ loc'.profile_buf = <<>>
                 /\ loc'.changed_uuids = <<>> /\ loc'.stats_buf = <<>>
                 /\ loc'.metric_buf = <<>>)
         /\ (pc' = "king" /\ pc # "king")
             => (/\ pc = "cleanup"
                 /\ db' = txn'
                 /\ \A r \in PlayerRows(db', loc.run_id) : r.uuid \in db'.tmp_seen)
         /\ (pc = "scan" /\ loc'.raised) => (pc' = "finally")
       ]_vars

\* A flush has failed in the middle of a scan: the seen set holds only some
\* of the kept players, a kept player with rows in the store is not in it,
\* and the run ends without cleanup.
C6_Witness ==
  /\ pc = "finally" /\ loc.raised
  /\ hist.failed_in \in FlushFunctions
  /\ db.tmp_seen # {} /\ db.tmp_seen # KeptByRules
  /\ \E r \in PlayerRows(db, loc.run_id) : r.uuid \in KeptByRules \ db.tmp_seen
  /\ ~hist.cleanup_ran

\* the sources of one enabled metric
SourcesOf(metric_sources, metric_id) ==
  metric_sources[CHOOSE i \in 1..Len(metric_sources) : metric_sources[i][1] = metric_id][2]

\* C7 (sparse-metric invariant): no metric_value row, committed or pending,
\* of a source-computed metric or of the composite metric, has value <= 0.
C7_SparseMetrics ==
  \A r \in db.metric_value \cup txn.metric_value : r.value > 0

\* The leaderboard has been recomputed with a negative first-rank award: the
\* best miner has no composite row, and no row for the metric on which their
\* deaths outweigh their jumps.
C7_Witness ==
  /\ pc = "touch" /\ hist.king_ran /\ hist.failed_in = "none"
  /\ \E p \in Players :
       /\ \E r \in db.metric_value : r.uuid = p /\ r.metric_id = "blocks_mined"
       /\ MetricTotal(ParsedStats[files[p]], SourcesOf(loc.metric_sources, "survival")) < 0
       /\ \A r \in db.metric_value : r.uuid = p => r.metric_id = "blocks_mined"

\* the composite rows of a view
CompositeRows(view) == {r \in view.metric_value : r.metric_id = KingMetricId}

\* the enabled metrics other than the composite one
RankedMetrics ==
  {metric_source[i].metric_id : i \in {j \in 1..Len(metric_source) : metric_source[j].enabled}}
  \ {KingMetricId}

\* the rows of one metric with value > 0
PositiveRows(view, run_id, mid) ==
  {r \in view.metric_value : r.run_id = run_id /\ r.metric_id = mid /\ r.value > 0}

\* rank of row r among rows: 1 + the rows with a larger value, or with the
\* same value and a lower player id
RankAmong(rows, r) ==
  1 + Cardinality({q \in rows : q.value > r.value \/ (q.value = r.value /\ q.uuid < r.uuid)})

\* the configured points of a rank: the first three entries of --king-points
ConfiguredPoints ==
  LET pts == CHOOSE x \in menu.king_points : TRUE
  IN IF pts = <<>> THEN <<5, 3, 1>> ELSE pts

\* what player u is awarded on metric mid; with positive_only a rank whose
\* points are zero or negative awards nothing
AwardOn(view, run_id, mid, u, positive_only) ==
  LET rows == PositiveRows(view, run_id, mid)
      mine == {r \in rows : r.uuid = u}
  IN IF mine = {} THEN 0
     ELSE LET rank == RankAmong(rows, CHOOSE r \in mine : TRUE)
              pt == IF rank <= 3 /\ rank <= Len(ConfiguredPoints)
                    THEN ConfiguredPoints[rank] ELSE 0
          IN IF positive_only /\ pt <= 0 THEN 0 ELSE pt

RECURSIVE AwardSum(_, _, _, _, _)
AwardSum(view, run_id, mids, u, positive_only) ==
  IF mids = {} THEN 0
  ELSE LET mid == CHOOSE m \in mids : TRUE
       IN AwardOn(view, run_id, mid, u, positive_only)
          + AwardSum(view, run_id, mids \ {mid}, u, positive_only)

\* the composite rows the ranking yields: one per player with a positive sum
CompositeOf(view, run_id, positive_only) ==
  {MvRow(run_id, KingMetricId, u, AwardSum(view, run_id, RankedMetrics, u, positive_only)) :
     u \in {w \in KingPlayers : AwardSum(view, run_id, RankedMetrics, w, positive_only) > 0}}

\* the king step has run to its end
Recomputed == pc = "touch" /\ hist.king_ran /\ hist.failed_in = "none"

\* the example of the claim: players 1 and 2 alone, valued 10 and 5 on one
\* metric, default points
TenAndFive ==
  /\ db.metric_value \ (CompositeRows(db) \cup {MvRow(1, "retired", 1, 50)})
       = {MvRow(1, "blocks_mined", 1, 10), MvRow(1, "blocks_mined", 2, 5)}
  /\ ConfiguredPoints = <<5, 3, 1>>

C9_LeaderboardDeterministic ==
  /\ [][(pc = "king" /\ hist.prev = "completed" /\ pc' = "touch")
          => (/\ CompositeRows(db') = CompositeRows(db)
              /\ db'.metric_award = db.metric_award)]_vars
  /\ [](Recomputed =>
          /\ LET clean == [db EXCEPT !.metric_value = @ \ CompositeRows(db)]
                 prog == recompute_king_points(clean, schema.metric_award, loc.run_id,
                                               MetricIds(loc.metric_sources), KingMetricId,
                                               AwardPoints(CHOOSE x \in menu.king_points : TRUE))
             IN Run([db |-> clean, txn |-> clean], prog, Len(prog)).db.metric_value
                  = db.metric_value
          /\ \A a, b \in db.metric_award :
                (a.metric_id = b.metric_id /\ a.value = b.value /\ a.uuid < b.uuid)
                => a.place < b.place)

\* The second recompute has run on a metric with two tied players who both
\* hold an award.
C9_Witness ==
  /\ Recomputed
  /\ hist.prev = "completed"
  /\ \E a, b \in db.metric_award :
       a.metric_id = b.metric_id /\ a.value = b.value /\ a.uuid < b.uuid

\* the value under (section, key) of the tree, Missing when the section is
\* not there, is not an object, or has no such key
ValueAt(stats, section, mc_key) ==
  IF ~HasKey(stats, section) THEN Missing
  ELSE LET sec == DictGet(stats, section, JNull)
       IN IF ~IsDict(sec) \/ ~HasKey(sec, mc_key) THEN Missing
          ELSE DictGet(sec, mc_key, JNull)

\* what a value counts for, doubled (so that 2.5 is 5): by Python's int(),
\* or as a JSON number taken as it is and anything else as 0
TwiceCounted(v, by_int) ==
  CASE v.t = "int" -> 2 * v.n
    [] v.t = "float" ->
         IF by_int THEN 2 * (IF v.n >= 0 THEN v.n \div 2 ELSE -((-v.n) \div 2)) ELSE v.n
    [] v.t \in {"numstr", "bool"} -> IF by_int THEN 2 * v.n ELSE 0
    [] OTHER -> 0

\* the enabled source rows of a metric, by position in metric_source
EnabledRows(mid) ==
  {i \in 1..Len(metric_source) : metric_source[i].enabled /\ metric_source[i].metric_id = mid}

RECURSIVE TwiceTotal(_, _, _)
TwiceTotal(stats, rows, by_int) ==
  IF rows = {} THEN 0
  ELSE LET i == CHOOSE j \in rows : TRUE
           src == metric_source[i]
       IN TwiceCounted(ValueAt(stats, src.section, src.mc_key), by_int) * src.weight
          + TwiceTotal(stats, rows \ {i}, by_int)

\* the metric rows of the player: one per enabled metric whose total is > 0,
\* holding the total
MetricRowsOf(stats, run_id, u, by_int) ==
  {r \in [run_id : {run_id}, metric_id : RankedMetrics, uuid : {u}, value : -40..40] :
     /\ TwiceTotal(stats, EnabledRows(r.metric_id), by_int) > 0
     /\ 2 * r.value = TwiceTotal(stats, EnabledRows(r.metric_id), by_int)}

\* the metrics of the changed player have been computed
MetricsComputed == hist.recomputed = {1} /\ pc \in {"scan", "cleanup"}

\* C10 (metric computation), as the code has it: the total of an enabled
\* metric is the sum over its sources of int(value) * weight, with Python's
\* int(): a whole number is itself, a fractional number is cut toward zero,
\* a string of digits is the number it spells, true is 1; a missing section
\* or key, a section that is not an object, null, other text, a list or an
\* object count 0 for that source only; a row is buffered, and stored by the
\* flush, exactly when the total is > 0.
C10_MetricComputation ==
  MetricsComputed =>
    /\ pc = "scan" => SeqToSet(loc.metric_buf) = MetricRowsOf(tree, loc.run_id, 1, TRUE)
    /\ pc = "cleanup" => db.metric_value = MetricRowsOf(tree, loc.run_id, 1, TRUE)

\* C10 as stated: a number counts as it is, whole or not, and whatever is not
\* a number counts 0.
C10_AsStated ==
  (MetricsComputed /\ pc = "scan")
  => \A r \in SeqToSet(loc.metric_buf) : r \in MetricRowsOf(tree, loc.run_id, 1, FALSE)

\* The batch is flushed of a player whose deaths are text and whose mined
\* section is missing: the jumps alone make the survival row, and there is
\* no blocks_mined row.
C10_Witness ==
  /\ MetricsComputed /\ pc = "cleanup"
  /\ ValueAt(tree, "minecraft:custom", "minecraft:deaths") = JText
  /\ ValueAt(tree, "minecraft:custom", "minecraft:jump") = JInt(3)
  /\ ~HasKey(tree, "minecraft:mined")
  /\ \E r \in db.metric_value : r.metric_id = "survival" /\ r.value > 3
  /\ \A r \in db.metric_value : r.metric_id = "survival"

\* a non-dry-run pass has run to its end and returns 0
PassCompleted == pc = "finally" /\ loc.rc = 0 /\ ~loc.raised /\ ~loc.args.dry_run

\* the metric rows the stored stats payload of player p stands for: the
\* positive totals of the tree the payload decodes to
MetricsOfStoredStats(view, run_id, p, metric_sources) ==
  UNION {SeqToSet(ComputeMetricRows(run_id, p, r.stats_gzip, metric_sources)) :
           r \in {q \in view.player_stats : q.run_id = run_id /\ q.uuid = p}}

\* C11 (no stale metrics): after a completed non-dry-run pass the
\* non-composite metric_value rows of every player are exactly the positive
\* metric totals of the player's stored stats payload.
C11_NoStaleMetrics ==
  PassCompleted =>
    \A p \in Players :
      ScanMetrics(db, p) = MetricsOfStoredStats(db, loc.run_id, p, loc.metric_sources)

\* C12 (dry run): no step of a run in dry-run mode changes the committed
\* persistent store (run record and its timestamp, player_profile,
\* player_stats, metric_value, metric_award; the temporary table set aside).
C12_DryRunWritesNothing ==
  [][(pc # "idle" /\ loc.args.dry_run) => Closed(db') = Closed(db)]_vars

\* a call of the leaderboard recompute raised in this run, and no call after it
KingFailed == hist.king_ran /\ hist.failed_in = "recompute_king_points"

\* what scan and cleanup commit: the profile rows, the stats rows and the
\* non-composite metric rows of a view
BaseRows(view) ==
  <<view.player_profile, view.player_stats,
    {r \in view.metric_value : r.metric_id # KingMetricId}>>

\* C13 (derived-step failure): when a call of the leaderboard recompute
\* raises, main goes on to the timestamp update and returns 0, the lock is
\* released at the end of the run, and neither the failing step nor the rest
\* of the run changes a player_profile, player_stats or non-composite
\* metric_value row.
C13_KingFailureSwallowed ==
  /\ []((pc = "finally" /\ KingFailed) => (loc.rc = 0 /\ ~loc.raised))
  /\ [][
        /\ (pc = "king")
              => (BaseRows(db') = BaseRows(db) /\ BaseRows(txn') = BaseRows(txn))
        /\ (pc = "king" /\ hist'.failed_in = "recompute_king_points")
              => (pc' = "touch")
        /\ (KingFailed /\ pc \in {"touch", "finally"})
              => (BaseRows(db') = BaseRows(db))
        /\ (KingFailed /\ pc = "finally")
              => (lock' = 0 /\ pc' = "idle")
     ]_vars

\* A run is ending with 0 whose recompute failed after its deletes: a player
\* has stats and a positive metric, and the store holds no composite row.
C13_Witness ==
  /\ pc = "finally" /\ KingFailed /\ loc.rc = 0
  /\ db.player_stats # {}
  /\ \E r \in db.metric_value : r.metric_id # KingMetricId /\ r.value > 0
  /\ \A r \in db.metric_value : r.metric_id # KingMetricId

\* the file named n does not parse, or n is not a player id
Malformed(n) == files[n] = "unparsable" \/ (n \notin Players /\ files[n] # "absent")

\* C14 (input-malformed skip): the loop iteration of a file that does not parse
\* or whose name is no player id adds one to the processed count and changes
\* nothing else (no buffer, no table, not the kept count); the player of such
\* a file is never in the seen set and has no statement of the scan; once
\* cleanup has committed the store holds no row of that player.
C14_MalformedSkipped ==
  /\ [](\A n \in FileNames :
          (pc \in {"scan", "cleanup", "king", "touch"} /\ Malformed(n) /\ ~loc.args.dry_run)
          => /\ n \notin hist.kept_set \cup hist.written \cup hist.recomputed
             /\ n \notin txn.tmp_seen \cup db.tmp_seen \cup {row : row \in SeqToSet(loc.seen_buf)}
             /\ (pc \in {"king", "touch"}) => (\A r \in PlayerRows(db, loc.run_id) : r.uuid # n))
  /\ [][\A n \in FileNames :
          (pc = "scan" /\ Malformed(n) /\ n \in loc.todo /\ n \notin loc'.todo /\ pc' = "scan")
          => /\ loc' = [loc EXCEPT !.todo = @ \ {n}, !.processed = @ + 1]
             /\ db' = db
             /\ txn' = txn]_vars

\* Cleanup has committed in a pass over three files: one does not parse and
\* belongs to a player whose rows cleanup has removed, one has a name that is
\* no player id, one was kept.
C14_Witness ==
  /\ pc = "king"
  /\ files[0] # "absent"
  /\ loc.processed = 3 /\ loc.kept = 1
  /\ \E p \in Players : files[p] = "unparsable" /\ p \in hist.removed
  /\ \E q \in db.tmp_seen : RowsOf(db.player_stats, q) # {}

\* metric_def has no enabled metric with a source
NoMetricEnabled == \A i \in 1..Len(metric_source) : ~metric_source[i].enabled

\* the three per-player tables of a view
PlayerTables(view) == <<view.player_profile, view.player_stats, view.metric_value>>

\* C15 (early error outcomes): a missing stats directory ends the run with 2,
\* no enabled metric with 3, a lock that is not granted with 10, and a run
\* that gets through with 0; a run that ends with 2, 3 or 10 writes and
\* deletes no player_profile, player_stats or metric_value row and runs
\* neither cleanup nor the leaderboard step; the lock is requested once per
\* run: a refused request takes main to the finally block and the run ends.
C15_EarlyOutcomes ==
  /\ [](/\ (pc = "finally" /\ ~loc.raised)
             => /\ loc.rc \in {0, 3, 10}
                /\ (loc.rc = 10) <=> ~loc.lock_acquired
                /\ (loc.rc = 3) <=> (loc.lock_acquired /\ NoMetricEnabled)
                /\ (loc.rc # 0) => (~hist.scan_done /\ ~hist.cleanup_ran /\ ~hist.king_ran)
        /\ (hist.prev = "exit2") => (hist.prev_rc = 2)
        /\ (hist.prev = "early") => (hist.prev_rc \in {3, 10})
        /\ (hist.prev \in {"completed", "dry"}) <=> (hist.prev_rc = 0))
  /\ [][
        /\ (hist'.prev_rc = 2 /\ hist.prev_rc # 2)
              => (pc = "idle" /\ pc' = "idle" /\ db' = db /\ txn' = txn /\ lock' = lock)
        /\ (pc \in {"lock", "run_id", "load"} \/ (pc = "finally" /\ loc.rc \in {3, 10}))
              => (PlayerTables(db') = PlayerTables(db))
        /\ (pc = "finally" /\ loc.rc \in {3, 10} /\ pc' # "finally")
              => (pc' = "idle" /\ hist'.prev = "early" /\ hist'.prev_rc = loc.rc)
        /\ (pc = "lock" /\ pc' # "lock" /\ lock = 2)
              => (pc' \in {"finally", "idle"} /\ lock' = 2
                  /\ (pc' = "finally" => loc'.rc = 10))
        /\ (pc' = "lock") => (pc \in {"idle", "lock"})
     ]_vars

\* A run is ending with 10: another job holds the lock, the run before found
\* no stats directory, and the rows of an earlier pass are in the store.
C15_Witness ==
  /\ pc = "finally" /\ loc.rc = 10 /\ lock = 2
  /\ hist.prev = "exit2"
  /\ db.player_stats # {} /\ db.metric_value # {}

\* the name the priority chain gives player p in this run
ChainName(p) ==
  IF p \in DOMAIN usercache THEN usercache[p]
  ELSE IF p \in DOMAIN hist.names_before THEN hist.names_before[p]
  ELSE Hex12(p)

\* the profile rows of player p in the active run of a view
ProfilesOf(view, p) ==
  {r \in view.player_profile : r.run_id = view.active_run_id /\ r.uuid = p}

\* C16 (name priority chain): every profile row the scan buffers, and after the
\* flush every stored profile row of a kept player, has the identity-cache
\* name when the cache has one, otherwise the name the store held for the
\* player when the run started, otherwise the fallback of the player id; and
\* no step replaces a stored name that is not a fallback by a fallback while
\* the player keeps a profile row.
C16_NamePriority ==
  /\ [](/\ \A i \in 1..Len(loc.profile_buf) :
               loc.profile_buf[i].name = ChainName(loc.profile_buf[i].uuid)
        /\ (pc \in {"cleanup", "king", "touch"} \/ PassCompleted)
             => \A p \in hist.kept_set :
                  /\ ProfilesOf(db, p) # {}
                  /\ \A r \in ProfilesOf(db, p) : r.name = ChainName(p))
  /\ [][\A p \in Players :
          \A r \in ProfilesOf(db, p), q \in ProfilesOf(db', p) :
             (r.name_source # "fallback") => (q.name_source # "fallback" /\ q.name # Hex12(p))]_vars

\* A pass is ending in which one player, no longer in the identity cache,
\* kept the name the store held, and another got the fallback of its id.
C16_Witness ==
  /\ PassCompleted
  /\ \E p, q \in hist.kept_set :
       /\ p \notin DOMAIN usercache /\ p \in DOMAIN hist.names_before
       /\ \E r \in ProfilesOf(db, p) : r.name \in {"Alice", "Zoe"} /\ r.last_seen = "now"
       /\ \E r \in ProfilesOf(db, q) : r.name = Hex12(q) /\ r.name_source = "fallback"

\* C17 (fallback name injectivity): two profile rows of one run that carry
\* fallback names and belong to distinct players have distinct names.
C17_FallbackInjective ==
  \A r, q \in db.player_profile :
     (/\ r.run_id = q.run_id /\ r.uuid # q.uuid
      /\ r.name_source = "fallback" /\ q.name_source = "fallback") => r.name # q.name

\* the players of the rows a buffer holds
BufferedPlayers ==
  {row.uuid : row \in SeqToSet(loc.profile_buf) \cup SeqToSet(loc.stats_buf)
                      \cup SeqToSet(loc.metric_buf)}
    \cup SeqToSet(loc.seen_buf) \cup SeqToSet(loc.changed_uuids)

\* the rows of player p in the three per-player tables of a view
RowsOfPlayer(view, p) ==
  {r \in view.player_profile \cup view.player_stats \cup view.metric_value : r.uuid = p}

\* C18 (exclusion list): a player on the exclusion list of the run is never
\* kept, never put into a buffer or into tmp_seen, whatever the player's file
\* holds; no step of the run adds or changes a player_profile, player_stats
\* or metric_value row of the player; once cleanup has committed, the active
\* run has no row of the player in the three tables.
C18_ExcludedSkipped ==
  /\ [](\A p \in loc.args.excluded :
          /\ p \notin hist.kept_set \cup hist.written \cup hist.recomputed
          /\ p \notin BufferedPlayers
          /\ p \notin txn.tmp_seen \cup db.tmp_seen
          /\ CleanupCommitted => (\A r \in PlayerRows(db, loc.run_id) : r.uuid # p))
  /\ [][\A p \in loc.args.excluded :
          /\ RowsOfPlayer(db', p) \subseteq RowsOfPlayer(db, p)
          /\ RowsOfPlayer(txn', p) \subseteq RowsOfPlayer(txn, p)]_vars

\* Cleanup has committed in a pass that excludes a player whose file would
\* be kept and whose rows an earlier pass stored: the rows are gone, the
\* other player is kept.
C18_Witness ==
  /\ CleanupCommitted
  /\ \E p \in loc.args.excluded :
       /\ ReadFile(files[p]).kind = "json"
       /\ PlayTime(StatsOf(ReadFile(files[p]).json)) >= MinPlayTicks
       /\ p \in hist.removed
       /\ hist.kept_set = Players \ {p}

\* the keys of the player_profile rows of a view
ProfileKeys(view) == {<<r.run_id, r.uuid>> : r \in view.player_profile}

\* C19 (profile freshness): once the scan of a non-dry-run pass has flushed
\* its buffers, and still when the pass has completed, every player the rules
\* keep has exactly one player_profile row in the run and its last_seen is
\* this pass's timestamp, whether or not the stats were hash-skipped; a
\* profile row leaves the store only in the cleanup step or when the finally
\* block commits what an interrupted cleanup had deleted.
C19_ProfileFresh ==
  /\ []((pc \in {"cleanup", "king", "touch"} \/ PassCompleted)
        => \A p \in KeptByRules :
             /\ Cardinality(ProfilesOf(db, p)) = 1
             /\ \A r \in ProfilesOf(db, p) : r.run_id = loc.run_id /\ r.last_seen = "now")
  /\ [][(ProfileKeys(db) \ ProfileKeys(db') # {})
          => (pc = "cleanup" \/ (pc = "finally" /\ hist.failed_in = "cleanup"))]_vars

\* A pass is ending that hash-skipped a player an earlier pass had stored:
\* nothing of the player's stats was written, the profile row is of this pass.
C19_Witness ==
  /\ PassCompleted
  /\ \E p \in hist.kept_set :
       /\ p \notin hist.written
       /\ p \in DOMAIN hist.prev_bytes
       /\ \E r \in ProfilesOf(db, p) : r.last_seen = "now"

\* this run repeats the completed run before it: no file has changed since,
\* and the exclusion list is the same
UnchangedRerun ==
  /\ hist.prev = "completed"
  /\ hist.same_input
  /\ loc.args.excluded = hist.prev_excluded

\* the scan has gone through every file and the run has not failed since
CountersFinal ==
  \/ pc = "scan" /\ loc.todo = {}
  \/ pc \in {"cleanup", "king", "touch"}
  \/ pc = "finally" /\ loc.rc = 0 /\ ~loc.raised

\* C20 as stated (unchanged rerun counters): in a rerun with no input change
\* after a completed pass the processed count equals the kept count of the
\* prior pass and the changed count is 0.
C20_AsStated ==
  (UnchangedRerun /\ CountersFinal)
    => (loc.processed = hist.prev_counts[2] /\ loc.changed = 0)

\* C20 (unchanged rerun counters, as the code counts): in a rerun with no
\* input change after a completed non-dry-run pass, dry run or not, the
\* processed count equals the processed count of the prior pass, which is the
\* number of stats files in the directory, the kept count equals the kept
\* count of the prior pass, and the changed count is 0.
C20_RerunCounters ==
  (UnchangedRerun /\ CountersFinal)
    => /\ loc.processed = hist.prev_counts[1]
       /\ loc.processed = Cardinality({n \in FileNames : files[n] # "absent"})
       /\ loc.kept = hist.prev_counts[2]
       /\ loc.kept = Cardinality(KeptByRules)
       /\ loc.changed = 0

\* An unchanged rerun is ending whose directory holds a file that is not
\* kept next to one that is.
C20_Witness ==
  /\ UnchangedRerun
  /\ pc = "finally" /\ loc.rc = 0 /\ ~loc.raised
  /\ loc.kept > 0
  /\ loc.processed > loc.kept
  /\ loc.changed = 0

\* the keys of a dict
KeysOf(d) == {d.kv[i][1] : i \in 1..Len(d.kv)}

\* two JSON values are the same but for the order of the keys of their dicts
RECURSIVE SameUpToOrder(_, _)
SameUpToOrder(a, b) ==
  IF IsDict(a) /\ IsDict(b)
  THEN /\ Len(a.kv) = Len(b.kv)
       /\ KeysOf(a) = KeysOf(b)
       /\ \A k \in KeysOf(a) : SameUpToOrder(DictGet(a, k, JNull), DictGet(b, k, JNull))
  ELSE a = b

\* the digest the scan computes of a document (lines 598-601, 653-654)
DigestOf(raw) == sha1(json_bytes(StatsOf(raw)))

\* C21 (canonicalisation determinism): when a file is rewritten so that its
\* stats tree has the same sections, keys and values in another order, the
\* canonical bytes and the digest stay the same; the next pass finds the
\* stored digest of a kept player equal to the file's; and a scan step that
\* finds it equal counts no change, buffers no stats or metric row and
\* writes nothing but the seen id and the profile.
C21_CanonicalOrder ==
  [][/\ SameUpToOrder(StatsOf(tree), StatsOf(tree'))
          => /\ json_bytes(StatsOf(tree')) = json_bytes(StatsOf(tree))
             /\ DigestOf(tree') = DigestOf(tree)
             /\ (pc = "cleanup" /\ 1 \in hist.kept_set)
                   => HashUnchanged(loc'.existing_hash, 1, DigestOf(tree'))
     /\ (pc = "scan" /\ 1 \in loc.todo /\ HashUnchanged(loc.existing_hash, 1, DigestOf(tree)))
          => /\ loc'.changed = loc.changed
             /\ loc'.changed_uuids = loc.changed_uuids
             /\ loc'.stats_buf = loc.stats_buf /\ loc'.metric_buf = loc.metric_buf
             /\ db'.player_stats = db.player_stats /\ db'.metric_value = db.metric_value
    ]_vars

\* A pass has scanned, without counting a change, a file whose keys are in
\* another order than sorted order and than in the pass before.
C21_Witness ==
  /\ pc = "scan" /\ loc.todo = {} /\ hist.prev = "completed"
  /\ loc.kept = 1 /\ loc.changed = 0
  /\ StatsOf(tree) # json_bytes(StatsOf(tree))
  /\ tree \notin CanonDocs

\* C22 as stated (bounded buffers): after the processing of any file each of
\* the four buffers holds fewer rows than its threshold, the metric buffer
\* fewer than the threshold of the changed batch it is flushed with.
C22_AsStated ==
  (pc = "scan")
    => /\ Len(loc.seen_buf) < loc.args.flush.seen
       /\ Len(loc.profile_buf) < loc.args.flush.profiles
       /\ Len(loc.stats_buf) < loc.args.flush.changed
       /\ Len(loc.metric_buf) < loc.args.flush.changed

\* C22 (bounded buffers, as the code flushes): there are three thresholds;
\* after the processing of any file the seen buffer and the profile buffer
\* each hold fewer rows than their own threshold; the changed-player list and
\* the stats buffer hold the same number of rows, fewer than the threshold of
\* the changed batch; the metric buffer holds at most one row per enabled
\* metric for each player of the changed-player list.
C22_BoundedBuffers ==
  (pc = "scan")
    => /\ Len(loc.seen_buf) < loc.args.flush.seen
       /\ Len(loc.profile_buf) < loc.args.flush.profiles
       /\ Len(loc.changed_uuids) < loc.args.flush.changed
       /\ Len(loc.stats_buf) = Len(loc.changed_uuids)
       /\ Len(loc.metric_buf) <= Len(loc.changed_uuids) * Len(loc.metric_sources)
       /\ \A i \in 1..Len(loc.metric_buf) :
            \E j \in 1..Len(loc.changed_uuids) : loc.metric_buf[i].uuid = loc.changed_uuids[j]

\* The scan has processed a file and holds as many metric rows as the
\* threshold of the changed batch, which one changed player has not reached;
\* the seen buffer has been flushed at its own threshold.
C22_Witness ==
  /\ pc = "scan" /\ loc.processed > 0
  /\ Len(loc.metric_buf) >= loc.args.flush.changed
  /\ Len(loc.changed_uuids) = 1
  /\ loc.seen_buf = <<>> /\ Len(loc.profile_buf) = 1

\* a JSON value without the banner keys of its dicts, at every depth
RECURSIVE StripAll(_)
StripAll(j) ==
  IF ~IsDict(j) THEN j
  ELSE LET rest == SelectSeq(j.kv, LAMBDA pr : ~EndsWithWallBanner(pr[1]))
       IN JDict([i \in 1..Len(rest) |-> <<rest[i][1], StripAll(rest[i][2])>>])

\* lines 598-600: the stats tree of a document, before the strip
StatsTreeOf(raw) ==
  LET inner == IF IsDict(raw) THEN DictGet(raw, "stats", JNull) ELSE JNull
  IN IF IsDict(inner) THEN inner ELSE IF IsDict(raw) THEN raw ELSE JDict(<<>>)

\* the pairs of a section that are no banner keys
PlainPairs(sec) == SelectSeq(sec.kv, LAMBDA pr : ~EndsWithWallBanner(pr[1]))

\* the stats trees of two documents have the same sections and differ at most
\* in the banner keys directly inside dict-valued sections
SectionBannersOnly(a, b) ==
  LET x == StatsTreeOf(a)
      y == StatsTreeOf(b)
  IN /\ Len(x.kv) = Len(y.kv)
     /\ \A i \in 1..Len(x.kv) :
          /\ x.kv[i][1] = y.kv[i][1]
          /\ \/ x.kv[i][2] = y.kv[i][2]
             \/ /\ IsDict(x.kv[i][2]) /\ IsDict(y.kv[i][2])
                /\ PlainPairs(x.kv[i][2]) = PlainPairs(y.kv[i][2])

\* no dict-valued section of a stats tree has a banner key directly inside
SectionBannerFree(stats) ==
  \A i \in 1..Len(stats.kv) :
     IsDict(stats.kv[i][2]) => PlainPairs(stats.kv[i][2]) = stats.kv[i][2].kv

\* the stats payloads stored or buffered for storing
Payloads ==
  {r.stats_gzip : r \in db.player_stats \cup txn.player_stats \cup SeqToSet(loc.stats_buf)}

\* C23 as stated (cosmetic keys): two versions of a file that differ only in
\* keys with the banner suffix, wherever they are, have the same digest, and
\* no stored payload holds a key with the banner suffix.
C23_AsStated ==
  /\ [][(StripAll(tree) = StripAll(tree')) => (DigestOf(tree') = DigestOf(tree))]_vars
  /\ [](\A payload \in Payloads : BannerCount(payload) = 0)

\* C23 (cosmetic keys, as the code strips): banner keys directly inside a
\* dict-valued section of the stats tree are removed before the play-time
\* threshold and the digest are computed: two versions of a file whose stats
\* trees differ only in such keys have the same play time and digest, the
\* next pass finds the stored digest of a kept player equal to the file's
\* (and the scan step then counts no change), and no payload has a banner key
\* directly inside a section.
C23_CosmeticKeys ==
  /\ [][/\ SectionBannersOnly(tree, tree')
             => /\ PlayTime(StatsOf(tree')) = PlayTime(StatsOf(tree))
                /\ DigestOf(tree') = DigestOf(tree)
                /\ (pc = "cleanup" /\ 1 \in hist.kept_set)
                      => HashUnchanged(loc'.existing_hash, 1, DigestOf(tree'))
        /\ (pc = "scan" /\ 1 \in loc.todo /\ HashUnchanged(loc.existing_hash, 1, DigestOf(tree)))
             => (loc'.changed = loc.changed /\ loc'.stats_buf = loc.stats_buf
                 /\ db'.player_stats = db.player_stats)
       ]_vars
  /\ [](\A payload \in Payloads : SectionBannerFree(payload))

\* A pass has scanned, without counting a change, a file that has a banner
\* key inside a section which the file of the pass before did not have in
\* that form; the stored payload is without it.
C23_Witness ==
  /\ pc = "scan" /\ loc.todo = {} /\ hist.prev = "completed"
  /\ loc.kept = 1 /\ loc.changed = 0
  /\ ~SectionBannerFree(StatsTreeOf(tree))
  /\ db.player_stats # {}
  /\ \A r \in db.player_stats : r.stats_sha1 = DigestOf(tree) /\ BannerCount(r.stats_gzip) = 0

\* the ids of the run records of a view
RunIds(view) == {r.id : r \in view.import_run}

\* C24 (run identity): a statement adds a run record only when no active run
\* id is set, and the committed active run id is set only then; once it is
\* set no step changes it or adds a run record; a run that got past
\* ensure_run_id works with the active run id; and every player_profile,
\* player_stats and metric_value row carries the active run id.
C24_RunIdentity ==
  /\ [][/\ (RunIds(db') # RunIds(db) \/ db'.active_run_id # db.active_run_id)
             => (db.active_run_id = 0 /\ RunIds(db) \subseteq RunIds(db'))
        /\ (RunIds(txn') \ RunIds(txn) # {}) => (txn.active_run_id = 0)
        /\ (pc = "run_id" /\ pc' = "load")
             => (loc'.run_id = db'.active_run_id /\ loc'.run_id \in RunIds(db')
                 /\ (db.active_run_id # 0 => loc'.run_id = db.active_run_id))
       ]_vars
  /\ [](/\ (pc \in {"load", "scan", "cleanup", "king", "touch"})
             => (loc.run_id = db.active_run_id /\ loc.run_id # 0)
        /\ \A r \in db.player_profile \cup db.player_stats \cup db.metric_value
                     \cup txn.player_profile \cup txn.player_stats \cup txn.metric_value :
              r.run_id = db.active_run_id /\ r.run_id # 0)

\* A later run has passed ensure_run_id: the store has the one run record of
\* the first run, which is the active one, and rows of that run.
C24_Witness ==
  /\ pc = "load" /\ hist.prev = "completed"
  /\ db.active_run_id = 1 /\ RunIds(db) = {1} /\ loc.run_id = 1
  /\ db.player_stats # {} /\ db.metric_value # {}

\* C25 (leaderboard disabled): when a pass run with --no-king has completed,
\* the composite metric_value rows of the players the pass kept are the ones
\* the store held when the pass started.
C25_NoKingFrame ==
  (PassCompleted /\ loc.args.no_king)
    => ({r \in CompositeRows(db) : r.uuid \in hist.kept_set}
          = {r \in hist.king_before : r.uuid \in hist.kept_set})

\* C26 (lock release): the importer holds the lock exactly while its run has
\* lock_acquired set; the step that ends a run, whatever the run did before,
\* frees the lock when the run had acquired it and leaves it with its holder
\* when it had not; between runs the importer holds nothing; and a run's
\* request is refused only when another job holds the lock.
C26_LockRelease ==
  /\ [](/\ (lock = 1) <=> loc.lock_acquired
        /\ (pc = "idle") => (lock # 1))
  /\ [][/\ (pc # "idle" /\ pc' = "idle")
             => (lock' = IF loc.lock_acquired THEN 0 ELSE lock)
        /\ (pc \notin {"idle", "finally"} /\ pc' = "idle") => (hist'.faults = hist.faults + 1)
        /\ (pc = "lock" /\ pc' \notin {"lock", "idle"} /\ lock # 2) => loc'.lock_acquired
       ]_vars

\* A run has acquired the lock after a run in which a database call raised,
\* or which was killed, had ended.
C26_Witness ==
  /\ pc = "run_id" /\ loc.lock_acquired /\ lock = 1
  /\ hist.prev = "interrupted" /\ hist.faults > 0

\* the rows of a resolver run's view that differ from the rows it started from
ChangedProfiles(view) == view.player_profile \ hist.profiles_before

C28_NoHammering ==
  schema.name_checked_at =>
    /\ (pc = "finally" /\ loc.rc = 0) =>
         \A i \in 1..Len(loc.updates_fail) :
           \A r \in db.player_profile :
             r.uuid = loc.updates_fail[i].uuid => r.name_checked_at = "now"
    /\ (pc = "lookup" /\ loc.args.refresh_days > 0) =>
         \A i \in 1..Len(loc.candidates) :
           loc.candidates[i].uuid \in hist.prev_failed =>
             loc.candidates[i].name_checked_at = "expired"
====
